---- MODULE Spec2Model ----
(***************************************************************************)
(* A model of the Kira_AI response pipeline.                               *)
(*                                                                         *)
(*   - the tag parser of AI_Core.generate_and_process_stream (ai_core.py)  *)
(*     and the turns of process_and_respond around it, over texts that are *)
(*     sequences of characters (SpecParse);                                *)
(*   - the pipeline of one generation: the sentence queue, tts_worker, the *)
(*     audio queue, AudioPlayer.stream_audio and the teardown (SpecPipe,   *)
(*     and SpecPipeFair with the fairness of the event loop);              *)
(*   - the tasks of VTubeBot sharing processing_lock and the               *)
(*     interruption event (Spec);                                          *)
(*   - AIState under update and change_topic (SpecBrain), with scalars in  *)
(*     thousandths, Director.decide_action with the feedback of            *)
(*     conversation_loop (SpecDirector), and the list of discussed topics  *)
(*     (SpecTopics);                                                       *)
(*   - split_text_for_streaming (SpecSplit);                               *)
(*   - AudioPlayer.play_audio_with_lip_sync and the avatar client          *)
(*     (SpecLip).                                                          *)
(*                                                                         *)
(* A text is a sequence of one-character strings.  A character outside     *)
(* ASCII is written as the name of its code point ("U3002" is the          *)
(* ideographic full stop): it is one element of the sequence, as it is one *)
(* character of a Python str.                                              *)
(***************************************************************************)
EXTENDS Integers, Sequences, FiniteSets, TLC

VARIABLES
    \* ---- the parser of generate_and_process_stream (SpecParse)
    stream_rest,        \* the part of the model's stream not yet delivered
    frags,              \* fragments delivered in this generation: 0, 1, 2 (or more)
    tool_raises,        \* whether tool.execute raises in this session
    gen_no,             \* 1: the turn's generation, 2: its corrective follow-up
    turn_no,            \* turns started
    rejected,           \* the turns whose generation raised SafetyViolationError
    buffer,             \* ai_core.py:77
    current_tag,        \* ai_core.py:78  ("none" for None)
    speak_buffer,       \* ai_core.py:79
    complete_response,  \* ai_core.py:80
    events,             \* what the parser did, in order (see Event)
    queued,             \* every put on sentence_queue, in order
    tool_results,       \* ai_core.py:29
    parse_pc            \* "idle" | "streaming" | "done" | "aborted"

VARIABLES
    \* ---- one generation's speech pipeline (SpecPipe)
    gen_pc,             \* generate_and_process_stream: "run" | "teardown" | "returned"
    gen_exit,           \* "none" | "normal" | "rejected"
    nsent,              \* sentences put on sentence_queue so far
    sentence_queue,     \* ai_core.py:91; 0 is None
    audio_stream_queue, \* ai_core.py:92; NoChunk is None
    tts_pc,             \* tts_worker: "start" | "get" | "synth" | "put" | "putnone" | "done" | "cancelled"
    tts_cur,            \* the sentence in synthesis and the chunks it has yielded
    failed,             \* the sentences whose synthesis raised
    play_pc,            \* stream_audio: "start" | "get" | "playing" | "done" | "cancelled"
    attempted,          \* the chunks tts_worker went on to put, in order
    audio_puts,         \* every entry put on audio_stream_queue, in order
    played,             \* the chunks whose playback was started, in order
    interruption_event  \* bot.py:36

pipeLocals == <<gen_pc, gen_exit, nsent, sentence_queue, audio_stream_queue, tts_pc,
                tts_cur, failed, play_pc, attempted, audio_puts, played>>

pipeVars == <<pipeLocals, interruption_event>>

VARIABLES
    \* ---- the tasks of VTubeBot (Spec)
    ENABLE_VAD,            \* bot.py:31, a switch of the source
    pc,                    \* where each task stands
    processing_lock,       \* bot.py:37, an asyncio.Lock
    triggered,             \* vad_loop: an utterance is being recorded
    idle_short,            \* less than 5 s since reset_idle_timer
    conversation_segment,  \* len(conversation_segment), up to SegmentLimit
    gen_flag,              \* the interruption event as the running generation found it
    conversation_history,  \* len(conversation_history), bot.py:55
    last_event             \* the last event a task reported to ai_state

botVars == <<ENABLE_VAD, pc, processing_lock, triggered, idle_short,
             conversation_segment, gen_flag, conversation_history, last_event>>

parseVars == <<stream_rest, frags, tool_raises, gen_no, turn_no, rejected, buffer, current_tag, speak_buffer,
               complete_response, events, queued, tool_results, parse_pc>>

VARIABLES
    \* ---- AIState and Director (SpecBrain); the scalars are in thousandths
    boredom,                 \* ai_state.py:32
    energy,                  \* ai_state.py:33
    sass,                    \* ai_state.py:34
    focus,                   \* ai_state.py:35
    mood,                    \* ai_state.py:38
    consecutive_monologues,  \* ai_state.py:51
    last_op,                 \* the last call made on the state
    decision,                \* the last call of decide_action: its inputs and its plan
    ncalls,                  \* how many calls have changed the state so far
    recent_actions,          \* director.py:79
    boke_elapsed,            \* time.time() - last_boke_time in seconds, up to 30
    idle_time,               \* bot.py:286
    current_topic,           \* ai_state.py:41 ("" for no topic)
    topics_discussed         \* ai_state.py:43

brainVars == <<boredom, energy, sass, focus, mood, consecutive_monologues, last_op,
               decision, ncalls, recent_actions, boke_elapsed, idle_time,
               current_topic, topics_discussed>>

VARIABLES
    \* ---- split_text_for_streaming and the splitter of the parser (SpecSplit)
    seg_text,                \* the speak text given to both
    min_length,              \* lip_sync.py:12
    max_length,              \* lip_sync.py:12
    chunks,                  \* what split_text_for_streaming returned
    stream_sentences,        \* what the parser put on sentence_queue for the text
    seg_pc                   \* "new" | "whole" | "both"

splitVars == <<seg_text, min_length, max_length, chunks, stream_sentences, seg_pc>>

VARIABLES
    \* ---- AudioPlayer.play_audio_with_lip_sync and the avatar client (SpecLip)
    lip_sync_data,           \* audio_player.py:18, the frames of the chunk
    lip_idx,                 \* the frame the loop of line 30 stands at
    lip_elapsed,             \* time.time() - start_time in ms, up to 100
    lip_pc,                  \* "idle" | "start" | "frames" | "busy" | "done" | "cancelled"
    lip_log,                 \* every call of send_lip_sync, in order
    connected                \* vtube_client.py:4

lipVars == <<lip_sync_data, lip_idx, lip_elapsed, lip_pc, lip_log, connected>>

vars == <<parseVars, pipeVars, botVars, brainVars, splitVars, lipVars>>

----------------------------------------------------------------------------
(* Characters and texts *)

Chars(s) == [i \in 1..Len(s) |-> SubSeq(s, i, i)]

Min(S) == CHOOSE m \in S : \A k \in S : m <= k
Max(S) == CHOOSE m \in S : \A k \in S : m >= k

\* what Python's str.strip() and the regex class \s remove
Whitespace == {" ", "\n", "\t", "\r"}

Digits == {"0", "1", "2", "3", "4", "5", "6", "7", "8", "9"}

DigitVal(c) ==
    CASE c = "0" -> 0 [] c = "1" -> 1 [] c = "2" -> 2 [] c = "3" -> 3
      [] c = "4" -> 4 [] c = "5" -> 5 [] c = "6" -> 6 [] c = "7" -> 7
      [] c = "8" -> 8 [] c = "9" -> 9

\* [a-zA-Z]
Letters ==
    {"a", "b", "c", "d", "e", "f", "g", "h", "i", "j", "k", "l", "m",
     "n", "o", "p", "q", "r", "s", "t", "u", "v", "w", "x", "y", "z",
     "A", "B", "C", "D", "E", "F", "G", "H", "I", "J", "K", "L", "M",
     "N", "O", "P", "Q", "R", "S", "T", "U", "V", "W", "X", "Y", "Z"}

\* s[i:] of Python for the 1-based index of the first character kept
From(s, i) == SubSeq(s, i, Len(s))

\* s[:i] of Python: the characters before the 1-based index i
Before(s, i) == SubSeq(s, 1, i - 1)

IsAt(s, i, lit) ==
    /\ i >= 1
    /\ i + Len(lit) - 1 <= Len(s)
    /\ SubSeq(s, i, i + Len(lit) - 1) = lit

\* the first index >= from at which lit occurs in s, 0 when there is none
Find(s, lit, from) ==
    LET H == {i \in from..Len(s) : IsAt(s, i, lit)}
    IN  IF H = {} THEN 0 ELSE Min(H)

Contains(s, lit) == Find(s, lit, 1) # 0

\* str.strip()
Strip(s) ==
    LET N == {i \in 1..Len(s) : s[i] \notin Whitespace}
    IN  IF N = {} THEN <<>> ELSE SubSeq(s, Min(N), Max(N))

\* the characters of s that are not in the set drop, in order
RECURSIVE Without(_, _)
Without(s, drop) ==
    IF s = <<>> THEN <<>>
    ELSE IF Head(s) \in drop THEN Without(Tail(s), drop)
    ELSE <<Head(s)>> \o Without(Tail(s), drop)

\* int() of a run of digits
RECURSIVE IntOf(_)
IntOf(ds) ==
    IF ds = <<>> THEN 0
    ELSE 10 * IntOf(SubSeq(ds, 1, Len(ds) - 1)) + DigitVal(ds[Len(ds)])

\* one string made of the characters of s
RECURSIVE Joined(_)
Joined(s) == IF s = <<>> THEN "" ELSE Head(s) \o Joined(Tail(s))

----------------------------------------------------------------------------
(* The regular expressions of generate_and_process_stream and _handle_tag.  *)
(* A position is a 1-based index; Python's "." matches every character but  *)
(* the line feed.                                                           *)

TagNames == {"speak", "thought", "wait", "tool"}
EndTagNames == {"speak", "thought", "tool"}
SelfClosingNames == {"wait", "tool"}

\* the name of the alternation (n1|n2|...) that matches at i, "none" when none does
NameAt(s, i, names) ==
    IF \E n \in names : IsAt(s, i, Chars(n))
    THEN CHOOSE n \in names : IsAt(s, i, Chars(n))
    ELSE "none"

\* tag_pattern = <(speak|thought|wait|tool)(.*?)> matched at i: the index of its
\* ">", 0 when it does not match there.  The lazy (.*?) ends at the first ">",
\* which must come before any line feed.
TagEndAt(s, i) ==
    IF s[i] # "<" THEN 0
    ELSE LET n == NameAt(s, i + 1, TagNames)
         IN  IF n = "none" THEN 0
             ELSE LET G == {j \in (i + 1 + Len(n))..Len(s) : s[j] \in {">", "\n"}}
                  IN  IF G = {} THEN 0
                      ELSE IF s[Min(G)] = ">" THEN Min(G) ELSE 0

\* tag_pattern.search(s): the leftmost match
tag_pattern(s) ==
    LET H == {i \in 1..Len(s) : TagEndAt(s, i) # 0}
    IN  IF H = {}
        THEN [found |-> FALSE, start |-> 0, stop |-> 0, name |-> "none"]
        ELSE [found |-> TRUE, start |-> Min(H), stop |-> TagEndAt(s, Min(H)),
              name |-> NameAt(s, Min(H) + 1, TagNames)]

\* self_closing_pattern = <(wait|tool)(.*?)\s*/> matched at the start of s
\* (re.match).  The lazy (.*?) takes the text up to the first "/>" without its
\* trailing white space, and may not hold a line feed; it may hold a ">".
\* len is the length of group(0).
\* a pattern that matches nowhere
self_closing_none(s) == [found |-> FALSE, name |-> "none", attrs |-> <<>>, len |-> 0]

self_closing_pattern(s) ==
    LET no == [found |-> FALSE, name |-> "none", attrs |-> <<>>, len |-> 0]
    IN  IF s = <<>> \/ s[1] # "<" THEN no
        ELSE LET n == NameAt(s, 2, SelfClosingNames)
             IN  IF n = "none" THEN no
                 ELSE LET a == 2 + Len(n)
                          p == Find(s, <<"/", ">">>, a)
                          N == {k \in a..(p - 1) : s[k] \notin Whitespace}
                          b == IF N = {} THEN a - 1 ELSE Max(N)
                      IN  IF p = 0 \/ Contains(SubSeq(s, a, b), <<"\n">>) THEN no
                          ELSE [found |-> TRUE, name |-> n,
                                attrs |-> SubSeq(s, a, b), len |-> p + 1]

\* end_tag_pattern = </(speak|thought|tool)> matched at i: its name, or "none"
EndTagAt(s, i) ==
    IF ~IsAt(s, i, <<"<", "/">>) THEN "none"
    ELSE LET n == NameAt(s, i + 2, EndTagNames)
         IN  IF n # "none" /\ IsAt(s, i + 2 + Len(n), <<">">>) THEN n ELSE "none"

\* end_tag_pattern.search(s): the leftmost match; stop is the index of its ">"
end_tag_pattern(s) ==
    LET H == {i \in 1..Len(s) : EndTagAt(s, i) # "none"}
    IN  IF H = {}
        THEN [found |-> FALSE, start |-> 0, stop |-> 0, name |-> "none"]
        ELSE [found |-> TRUE, start |-> Min(H),
              stop |-> Min(H) + 2 + Len(EndTagAt(s, Min(H))),
              name |-> EndTagAt(s, Min(H))]

\* key="(\d+)" (digitsOnly) or key="([^"]+)" matched at i: the group, <<>> when
\* there is no match at i (a match never captures the empty text)
QuotedAt(s, i, key, digitsOnly) ==
    LET lit == Chars(key) \o <<"=", "\"">>
        a == i + Len(lit)
        Q == {j \in a..Len(s) :
                IF digitsOnly THEN s[j] \notin Digits ELSE s[j] = "\""}
    IN  IF ~IsAt(s, i, lit) \/ Q = {} THEN <<>>
        ELSE IF s[Min(Q)] = "\"" /\ Min(Q) > a THEN SubSeq(s, a, Min(Q) - 1)
        ELSE <<>>

\* re.search(r'key="(...)"', s): group(1) of the leftmost match, <<>> for None
AttrSearch(s, key, digitsOnly) ==
    LET H == {i \in 1..Len(s) : QuotedAt(s, i, key, digitsOnly) # <<>>}
    IN  IF H = {} THEN <<>> ELSE QuotedAt(s, Min(H), key, digitsOnly)

\* the split characters of the streaming splitter: [。！？!?\n], and with the
\* commas [。！？!?,、…\n] once the buffer is longer than LongBuffer
MajorMarks == {"U3002", "UFF01", "UFF1F", "!", "?", "\n"}
MinorMarks == {",", "U3001", "U2026"}
LongBuffer == 30
MinSpeak == 5

SplitMarks(buf) ==
    IF Len(buf) > LongBuffer THEN MajorMarks \cup MinorMarks ELSE MajorMarks

\* re.search(split_pattern, buf): the index of the first split character, or 0
SplitSearch(buf) ==
    LET H == {i \in 1..Len(buf) : buf[i] \in SplitMarks(buf)}
    IN  IF H = {} THEN 0 ELSE Min(H)

----------------------------------------------------------------------------
(* TextFilter (src/src/audio/text_filter.py)                                *)

\* "死ね", the first word of nsfw_patterns, and "提案", a word of the second of
\* meta_patterns: the representatives of the two pattern lists
NsfwWord == <<"U6B7B", "U306D">>
MetaWord == <<"U63D0", "U6848">>

\* symbol_cleanup_pattern [()（）「」『』\[\]{}【】*＊]
SymbolChars ==
    {"(", ")", "UFF08", "UFF09", "U300C", "U300D", "U300E", "U300F",
     "[", "]", "{", "}", "U3010", "U3011", "*", "UFF0A"}

\* TextFilter.check_safety: TRUE when the text is allowed.  Both pattern lists
\* are searched; a pattern ^.*(w1|w2|...).* finds a text that holds one of its
\* words on a line.
check_safety(text) ==
    \/ text = <<>>
    \/ ~Contains(text, NsfwWord) /\ ~Contains(text, MetaWord)

\* the reading english_to_katakana gives a word: one element standing for the
\* katakana of the word (from the dictionary or from G2p), never the word itself
Kana(word) == "kana(" \o Joined(word) \o ")"

\* the length of the run of letters s starts with
LetterRun(s) ==
    LET N == {i \in 1..Len(s) : s[i] \notin Letters}
    IN  IF N = {} THEN Len(s) ELSE Min(N) - 1

\* english_to_katakana: english_word_pattern [a-zA-Z]{2,} replaced by the reading
RECURSIVE english_to_katakana(_)
english_to_katakana(s) ==
    IF s = <<>> THEN <<>>
    ELSE LET r == LetterRun(s)
         IN  IF r >= 2
             THEN <<Kana(SubSeq(s, 1, r))>> \o english_to_katakana(From(s, r + 1))
             ELSE <<Head(s)>> \o english_to_katakana(Tail(s))

\* text.split('\n')
RECURSIVE SplitLines(_)
SplitLines(s) ==
    LET p == Find(s, <<"\n">>, 1)
    IN  IF p = 0 THEN <<s>>
        ELSE <<Before(s, p)>> \o SplitLines(From(s, p + 1))

\* a line filter_text keeps: not blank, not a directive (directive_pattern
\* ^(#|###|\[).*), not meta talk.  role_pattern and the "Role: text" rewrite look
\* for words of two or more ASCII letters, none of which is left after
\* english_to_katakana.
KeepLine(line) ==
    LET trimmed == Strip(line)
    IN  /\ trimmed # <<>>
        /\ trimmed[1] \notin {"#", "["}
        /\ ~Contains(trimmed, MetaWord)

\* " ".join(cleaned_lines) of the stripped lines kept
RECURSIVE JoinKept(_)
JoinKept(lines) ==
    IF lines = <<>> THEN <<>>
    ELSE LET rest == JoinKept(Tail(lines))
         IN  IF ~KeepLine(Head(lines)) THEN rest
             ELSE IF rest = <<>> THEN Strip(Head(lines))
             ELSE Strip(Head(lines)) \o <<" ">> \o rest

\* the grave accent, removed by text.replace at line 132
Backtick == "U0060"

\* TextFilter.filter_text
filter_text(text) ==
    IF text = <<>> THEN <<>>
    ELSE LET t1 == Strip(Without(text, {Backtick}))
             t2 == english_to_katakana(t1)
             t3 == Without(t2, SymbolChars)
         IN  Strip(JoinKept(SplitLines(t3)))

filter_for_tts(text) == filter_text(text)

----------------------------------------------------------------------------
(* The parser: the body of "async for chunk" in generate_and_process_stream *)
(* and _handle_tag, on a record st of the locals and of what was done.      *)

Event(kind, text, name, seconds) ==
    [kind |-> kind, text |-> text, name |-> name, seconds |-> seconds]
\* sentence_queue.put(cleaned) of a piece of speak text
SpeechSegment(text) == Event("SpeechSegment", text, <<>>, 0)
\* print [THOUGHT]
Thought(text) == Event("Thought", text, <<>>, 0)
\* asyncio.sleep(seconds)
Wait(seconds) == Event("Wait", <<>>, <<>>, seconds)
\* the registry lookup for a named tool
ToolCall(name, args) == Event("ToolCall", args, name, 0)

\* an entry of sentence_queue: a sentence (and whether check_safety allowed it
\* before the put), or the sentinel None
Sentence(text, checked) == [sentinel |-> FALSE, text |-> text, checked |-> checked]
Sentinel == [sentinel |-> TRUE, text |-> <<>>, checked |-> FALSE]

\* register_default_tools; the youtube_comment tool is registered only with
\* ENABLE_YOUTUBE_COMMENTS
RegisteredTools == {"web_search"}

ToolResult(kind, name, query) == [kind |-> kind, tool |-> name, query |-> query]

\* _handle_tag without its handler of tool errors: a tool that raises leaves no
\* entry
handle_tag_unhandled(st, tag_name, attrs, content, raises) ==
    CASE tag_name = "thought" ->
            [st EXCEPT !.events = Append(@, Thought(Strip(content)))]
      [] tag_name = "wait" ->
            LET t == AttrSearch(attrs, "time", TRUE)
            IN  IF t # <<>>
                THEN [st EXCEPT !.events = Append(@, Wait(IntOf(t)))]
                ELSE st
      [] tag_name = "tool" ->
            LET tool_name == AttrSearch(attrs, "name", FALSE)
                args_match == AttrSearch(attrs, "args", FALSE)
                tool_args_str == IF args_match # <<>> THEN args_match
                                 ELSE Strip(content)
                result ==
                    IF Joined(tool_name) \notin RegisteredTools
                    THEN ToolResult("not found", tool_name, <<>>)
                    ELSE IF raises
                    THEN ToolResult("error", tool_name, <<>>)
                    ELSE ToolResult("result", tool_name, tool_args_str)
            IN  IF tool_name # <<>>
                THEN [st EXCEPT !.events = Append(@, ToolCall(tool_name, tool_args_str)),
                                !.tool_results = IF result.kind = "error" THEN @
                                                 ELSE Append(@, result)]
                ELSE st
      [] OTHER -> st

\* AI_Core._handle_tag; raises: whether tool.execute raises
handle_tag(st, tag_name, attrs, content, raises) ==
    CASE tag_name = "thought" ->
            [st EXCEPT !.events = Append(@, Thought(Strip(content)))]
      [] tag_name = "wait" ->
            LET t == AttrSearch(attrs, "time", TRUE)
            IN  IF t # <<>>
                THEN [st EXCEPT !.events = Append(@, Wait(IntOf(t)))]
                ELSE st
      [] tag_name = "tool" ->
            LET tool_name == AttrSearch(attrs, "name", FALSE)
                args_match == AttrSearch(attrs, "args", FALSE)
                tool_args_str == IF args_match # <<>> THEN args_match
                                 ELSE Strip(content)
                result ==
                    IF Joined(tool_name) \notin RegisteredTools
                    THEN ToolResult("not found", tool_name, <<>>)
                    ELSE IF raises
                    THEN ToolResult("error", tool_name, <<>>)
                    ELSE ToolResult("result", tool_name, tool_args_str)
            IN  IF tool_name # <<>>
                THEN [st EXCEPT !.events = Append(@, ToolCall(tool_name, tool_args_str)),
                                !.tool_results = Append(@, result)]
                ELSE st
      [] OTHER -> st

\* "どうぞ", a phrase of BANNED_PHRASES: the representative of the phrase and
\* pattern lists of PersonaEnforcer
BannedPhrase == <<"U3069", "U3046", "U305E">>

\* re.findall(r'[？?]', text): the question marks of the text
QuestionMarks(text) == {i \in 1..Len(text) : text[i] \in {"?", "UFF1F"}}

\* PersonaEnforcer.check (persona_enforcer.py:113-172): TRUE when the text has
\* no violation
persona_check(text) ==
    /\ ~Contains(text, BannedPhrase)
    /\ Cardinality(QuestionMarks(text)) < 3

\* print [PERSONA WARNING] (ai_core.py:169, 213)
PersonaWarning(text) == Event("PersonaWarning", text, <<>>, 0)

\* the checks and the put with a persona violation treated as a rejection
CheckAndQueueStrict(st, cleaned) ==
    IF ~check_safety(cleaned) \/ ~persona_check(cleaned)
    THEN [st EXCEPT !.queued = Append(@, Sentinel), !.raised = TRUE]
    ELSE [st EXCEPT !.events = Append(@, SpeechSegment(cleaned)),
                    !.queued = Append(@, Sentence(cleaned, TRUE))]

\* lines 160-175 and 204-217: the safety check of a cleaned text, the persona
\* check whose verdict is only printed, then the put; a rejection by the safety
\* check puts the sentinel and raises SafetyViolationError
CheckAndQueue(st, cleaned) ==
    IF ~check_safety(cleaned)
    THEN [st EXCEPT !.queued = Append(@, Sentinel), !.raised = TRUE]
    ELSE [st EXCEPT !.events = (IF persona_check(cleaned) THEN @
                                ELSE Append(@, PersonaWarning(cleaned)))
                               \o <<SpeechSegment(cleaned)>>,
                    !.queued = Append(@, Sentence(cleaned, TRUE))]

\* lines 152-176: the closing tag of an open speak tag was found
CloseSpeak(st, content) ==
    LET sb == st.speak_buffer \o content
        cleaned_text == filter_for_tts(Strip(sb))
        s1 == IF Strip(sb) # <<>> /\ cleaned_text # <<>>
              THEN CheckAndQueue(st, cleaned_text)
              ELSE st
    IN  [s1 EXCEPT !.speak_buffer = <<>>]

\* lines 196-218: a sentence was cut from the buffer of an open speak tag
ExtractSentence(st, sentence) ==
    LET sb == st.speak_buffer \o sentence
        cleaned_sent == filter_for_tts(Strip(sb))
    IN  IF Len(Strip(sb)) >= MinSpeak
        THEN [(IF cleaned_sent # <<>> THEN CheckAndQueue(st, cleaned_sent) ELSE st)
                EXCEPT !.speak_buffer = <<>>]
        ELSE [st EXCEPT !.speak_buffer = sb]

\* lines 225-234: the flush after the stream ended
FinalFlush(st) ==
    LET cleaned_sent == filter_for_tts(Strip(st.speak_buffer))
    IN  IF Strip(st.speak_buffer) = <<>> THEN st
        ELSE [(IF cleaned_sent # <<>>
               THEN [st EXCEPT !.events = Append(@, SpeechSegment(cleaned_sent)),
                               !.queued = Append(@, Sentence(cleaned_sent, FALSE))]
               ELSE st)
                EXCEPT !.speak_buffer = <<>>]

\* one pass of the body of "while buffer:" (lines 126-223); halt is its break
Iterate(st, raises) ==
    IF st.current_tag = "none"
    THEN LET m == tag_pattern(st.buffer)
             sc == self_closing_pattern(From(st.buffer, m.start))
         IN  IF ~m.found THEN [st EXCEPT !.halt = TRUE]
             ELSE IF sc.found
             THEN [handle_tag(st, sc.name, sc.attrs, <<>>, raises)
                     EXCEPT !.buffer = From(st.buffer, m.start + sc.len)]
             ELSE [st EXCEPT !.current_tag = m.name,
                             !.buffer = From(st.buffer, m.stop + 1)]
    ELSE LET e == end_tag_pattern(st.buffer)
             p == SplitSearch(st.buffer)
         IN  IF e.found
             THEN IF e.name = st.current_tag
                  THEN LET content == Before(st.buffer, e.start)
                           s1 == IF st.current_tag = "speak"
                                 THEN CloseSpeak(st, content)
                                 ELSE handle_tag(st, st.current_tag, <<>>, content, raises)
                       IN  IF s1.raised THEN s1
                           ELSE [s1 EXCEPT !.buffer = From(st.buffer, e.stop + 1),
                                           !.current_tag = "none"]
                  ELSE [st EXCEPT !.buffer = From(st.buffer, e.stop + 1)]
             ELSE IF st.current_tag = "speak" /\ p # 0
             THEN LET s1 == ExtractSentence(st, SubSeq(st.buffer, 1, p))
                  IN  IF s1.raised THEN s1
                      ELSE [s1 EXCEPT !.buffer = From(st.buffer, p + 1)]
             ELSE [st EXCEPT !.halt = TRUE]

\* "while buffer:" run until the buffer is empty, a break, or a raise
RECURSIVE ProcessBuffer(_, _)
ProcessBuffer(st, raises) ==
    IF st.buffer = <<>> \/ st.halt \/ st.raised THEN st
    ELSE ProcessBuffer(Iterate(st, raises), raises)

\* lines 121-223 for one chunk of the stream
OnChunk(st, chunk, raises) ==
    ProcessBuffer([st EXCEPT !.buffer = @ \o chunk, !.halt = FALSE], raises)

\* the locals at line 77-80, nothing done yet
NewParse(results) ==
    [buffer |-> <<>>, current_tag |-> "none", speak_buffer |-> <<>>,
     events |-> <<>>, queued |-> <<>>, tool_results |-> results,
     halt |-> FALSE, raised |-> FALSE]

\* lines 235-237: the finally clause puts the sentinel
Finally(st) == [st EXCEPT !.queued = Append(@, Sentinel)]

\* the whole of generate_and_process_stream for a stream of one fragment
ParseWhole(text, results, raises) ==
    LET s1 == OnChunk(NewParse(results), text, raises)
    IN  IF s1.raised THEN Finally(s1) ELSE Finally(FinalFlush(s1))

----------------------------------------------------------------------------
(* split_text_for_streaming (src/src/audio/lip_sync.py), the splitter of a  *)
(* whole text                                                               *)

\* the minor punctuation of line 30: [、…]
SegMinorMarks == {"U3001", "U2026"}

\* re.split(r'([marks])', s) taken in pairs: every piece is a segment with the
\* delimiter that ends it, the last piece is what follows the last delimiter
RECURSIVE Pieces(_, _)
Pieces(s, marks) ==
    LET H == {i \in 1..Len(s) : s[i] \in marks}
    IN  IF H = {} THEN <<s>>
        ELSE <<SubSeq(s, 1, Min(H))>> \o Pieces(From(s, Min(H) + 1), marks)

\* lines 31-40: the pieces of a segment that does not fit; a piece that brings
\* the chunk to min_length ends it, and the stripped chunk is appended as it is
RECURSIVE SubSplit(_, _, _)
SubSplit(acc, subs, minlen) ==
    IF subs = <<>> THEN acc
    ELSE LET sub_combined == Head(subs)
             next == IF Len(acc.current_chunk) + Len(sub_combined) >= minlen
                     THEN [chunks |-> Append(acc.chunks,
                                             Strip(acc.current_chunk \o sub_combined)),
                           current_chunk |-> <<>>]
                     ELSE [acc EXCEPT !.current_chunk = @ \o sub_combined]
         IN  SubSplit(next, Tail(subs), minlen)

\* lines 21-46: one round of the loop over the segments
SegmentRound(acc, combined, minlen, maxlen) ==
    IF Strip(combined) = <<>> THEN acc
    ELSE IF Len(acc.current_chunk) + Len(combined) > maxlen
    THEN SubSplit(acc, Pieces(combined, SegMinorMarks), minlen)
    ELSE LET cur == acc.current_chunk \o combined
         IN  IF \/ \E i \in 1..Len(combined) : combined[i] \in MajorMarks
                \/ Len(cur) >= maxlen
             THEN IF Len(Strip(cur)) >= 1
                  THEN [chunks |-> Append(acc.chunks, Strip(cur)),
                        current_chunk |-> <<>>]
                  ELSE [acc EXCEPT !.current_chunk = cur]
             ELSE [acc EXCEPT !.current_chunk = cur]

RECURSIVE SegmentRounds(_, _, _, _)
SegmentRounds(acc, pieces, minlen, maxlen) ==
    IF pieces = <<>> THEN acc
    ELSE SegmentRounds(SegmentRound(acc, Head(pieces), minlen, maxlen),
                       Tail(pieces), minlen, maxlen)

\* split_text_for_streaming(text, min_length, max_length)
split_text_for_streaming(s, minlen, maxlen) ==
    LET acc == SegmentRounds([chunks |-> <<>>, current_chunk |-> <<>>],
                             Pieces(s, MajorMarks), minlen, maxlen)
    IN  IF Strip(acc.current_chunk) # <<>>
        THEN Append(acc.chunks, Strip(acc.current_chunk))
        ELSE acc.chunks

\* the texts of the entries of a sentence queue that are not the sentinel
RECURSIVE SentenceTexts(_)
SentenceTexts(q) ==
    IF q = <<>> THEN <<>>
    ELSE IF Head(q).sentinel THEN SentenceTexts(Tail(q))
    ELSE <<Head(q).text>> \o SentenceTexts(Tail(q))

\* the sentences the parser puts on sentence_queue for <speak>s</speak>
\* delivered as one fragment
StreamSplit(s) ==
    SentenceTexts(ParseWhole(Chars("<speak>") \o s \o Chars("</speak>"),
                             <<>>, FALSE).queued)

\* the longest text given to the splitters
MaxText == 4

\* a digit, a blank, a sentence mark and the ideographic comma
SegAlphabet == {"1", " ", "!", "U3001"}

SegTexts == UNION {[1..n -> SegAlphabet] : n \in 0..MaxText}

\* the pairs of min_length and max_length: short ones that texts of the model
\* exceed, and those of the parser's splitter
SegParams == {<<1, 2>>, <<3, 4>>, <<MinSpeak, LongBuffer>>}

\* no text is being split
SplitIdle ==
    /\ seg_text = <<>>
    /\ min_length = 0
    /\ max_length = 0
    /\ chunks = <<>>
    /\ stream_sentences = <<>>
    /\ seg_pc = "idle"

\* split_text_for_streaming is called
SplitWhole ==
    /\ seg_pc = "new"
    /\ chunks' = split_text_for_streaming(seg_text, min_length, max_length)
    /\ seg_pc' = "whole"
    /\ UNCHANGED <<seg_text, min_length, max_length, stream_sentences>>

\* the same text is streamed through the parser inside a speak tag
SplitStream ==
    /\ seg_pc = "whole"
    /\ stream_sentences' = StreamSplit(seg_text)
    /\ seg_pc' = "both"
    /\ UNCHANGED <<seg_text, min_length, max_length, chunks>>

----------------------------------------------------------------------------
(* SpecBrain: AIState (ai_state.py) and Director.decide_action              *)
(* (director.py).  The four scalars are counted in thousandths: 700 is 0.7. *)
(* What the code reads from the clock or from random.random() is an input   *)
(* of the action.                                                           *)

MaxMonologues == 4

\* the calls of update and change_topic a run makes
MaxCalls == 4

\* one in thousandths
Unit == 1000

\* AIState(): the defaults of the dataclass (ai_state.py:32-51)
DefaultState ==
    [boredom |-> 0, energy |-> 700, sass |-> 300, focus |-> 500, mood |-> "CHILL",
     consecutive_monologues |-> 0]

AIStateNow ==
    [boredom |-> boredom, energy |-> energy, sass |-> sass, focus |-> focus,
     mood |-> mood, consecutive_monologues |-> consecutive_monologues]

NoInputs ==
    [has_comments |-> FALSE, roll_react |-> 0, boke_recent |-> FALSE, roll_boke |-> 0,
     roll_tease |-> 0, idle_time |-> 0, topic_old |-> FALSE, roll_topic |-> 0]

\* no plan made since the state last changed
NoDecision ==
    [made |-> FALSE, in |-> NoInputs, mode |-> "none", priority |-> 0,
     directive |-> FALSE]

\* should_boke: time_since_boke < 30
BokeCooldown == 30

\* the seconds the clock advances in one step
ClockStep == 15

\* change_topic: len(self.topics_discussed) > 10
TopicLimit == 10

\* MONOLOGUE_SEEDS, three of them
Topics == {"a", "b", "c"}

\* the state is new and decide_action was not called; last_boke_time is 0.0,
\* long ago
BrainIdle ==
    /\ boredom = DefaultState.boredom
    /\ energy = DefaultState.energy
    /\ sass = DefaultState.sass
    /\ focus = DefaultState.focus
    /\ mood = DefaultState.mood
    /\ consecutive_monologues = DefaultState.consecutive_monologues
    /\ last_op = "new"
    /\ ncalls = 0
    /\ decision = NoDecision
    /\ recent_actions = <<>>
    /\ boke_elapsed = BokeCooldown
    /\ idle_time = 0
    /\ current_topic = ""
    /\ topics_discussed = <<>>

\* the event names of _handle_event, and one it does not know
EventNames ==
    {"comment_received", "spoke", "boke", "topic_change", "got_reaction",
     "monologue", "other"}

\* AIState._handle_event
handle_event(st, event) ==
    CASE event = "comment_received" ->
            [st EXCEPT !.energy = Min({Unit, @ + 150}),
                       !.boredom = Max({0, @ - 200}),
                       !.consecutive_monologues = 0]
      [] event = "spoke" ->
            [st EXCEPT !.boredom = Max({0, @ - 50})]
      [] event = "boke" ->
            [st EXCEPT !.energy = Min({Unit, @ + 200}),
                       !.boredom = Max({0, @ - 300}),
                       !.sass = Min({Unit, @ + 100})]
      [] event = "topic_change" ->
            [st EXCEPT !.focus = Min({Unit, @ + 300}),
                       !.boredom = Max({0, @ - 150})]
      [] event = "got_reaction" ->
            [st EXCEPT !.energy = Min({Unit, @ + 100}),
                       !.sass = Max({0, @ - 50})]
      [] event = "monologue" ->
            LET n == st.consecutive_monologues + 1
            IN  [st EXCEPT !.consecutive_monologues = n,
                           !.boredom = IF n > 3 THEN Min({Unit, @ + 200}) ELSE @]
      [] OTHER -> st

\* _update_mood with the energy looked at before the sass
update_mood_energy_first(st) ==
    [st EXCEPT !.mood = IF st.boredom > 700 THEN "BORED"
                        ELSE IF st.energy > 700 THEN "ENERGETIC"
                        ELSE IF st.sass > 600 THEN "SASSY"
                        ELSE IF st.focus > 600 THEN "CURIOUS"
                        ELSE "CHILL"]

\* AIState._update_mood: the mood of the scalars
update_mood(st) ==
    [st EXCEPT !.mood = IF st.boredom > 700 THEN "BORED"
                        ELSE IF st.sass > 600 THEN "SASSY"
                        ELSE IF st.energy > 700 THEN "ENERGETIC"
                        ELSE IF st.focus > 600 THEN "CURIOUS"
                        ELSE "CHILL"]

\* the drift with the time without the upper limit of the boredom
DecayedUnclamped(st, elapsed_seconds, topic_old) ==
    LET d == [st EXCEPT !.boredom = @ + elapsed_seconds * 5,
                        !.energy = Max({200, @ - elapsed_seconds * 2}),
                        !.focus = Max({100, @ - elapsed_seconds * 3})]
    IN  IF topic_old
        THEN [d EXCEPT !.boredom = @ + 100,
                       !.focus = Max({100, @ - 100})]
        ELSE d

\* AIState.update lines 64-76: the drift with the time; topic_old: the topic is
\* older than 120 s
Decayed(st, elapsed_seconds, topic_old) ==
    LET d == [st EXCEPT !.boredom = Min({Unit, @ + elapsed_seconds * 5}),
                        !.energy = Max({200, @ - elapsed_seconds * 2}),
                        !.focus = Max({100, @ - elapsed_seconds * 3})]
    IN  IF topic_old
        THEN [d EXCEPT !.boredom = Min({Unit, @ + 100}),
                       !.focus = Max({100, @ - 100})]
        ELSE d

\* AIState.update; event "none" is None
update(st, elapsed_seconds, event, topic_old) ==
    LET d == Decayed(st, elapsed_seconds, topic_old)
    IN  update_mood(IF event # "none" THEN handle_event(d, event) ELSE d)

\* AIState.change_topic: the event, and no new mood
change_topic(st) == handle_event(st, "topic_change")

\* change_topic lines 140-144 without the eviction
discussed_unbounded(current, discussed, new_topic) ==
    IF current # "" /\ current # new_topic
    THEN Append(discussed, current)
    ELSE discussed

\* AIState.change_topic lines 140-144: what topics_discussed becomes
discussed_after(current, discussed, new_topic) ==
    IF current # "" /\ current # new_topic
    THEN LET appended == Append(discussed, current)
         IN  IF Len(appended) > TopicLimit THEN Tail(appended) ELSE appended
    ELSE discussed

\* what random.random() returns, in thousandths: 0.0 <= x < 1.0
Rolls == {0, 999}

\* the elapsed seconds given to update
ElapsedTimes == {0, 50, 1000}

\* the idle seconds given to decide_action
IdleTimes == {4, 5}

\* should_boke without the test of the time since the last boke
should_boke_any_time(st, boke_recent, roll) ==
    roll * Unit < st.boredom * 400 + (Unit - st.focus) * 300

\* AIState.should_boke; boke_recent: the last boke is less than 30 s old
should_boke(st, boke_recent, roll) ==
    /\ ~boke_recent
    /\ roll * Unit < st.boredom * 400 + (Unit - st.focus) * 300

\* AIState.should_change_topic
should_change_topic(st, topic_old, roll) ==
    \/ topic_old
    \/ (st.focus < 300 /\ st.boredom > 500 /\ roll < 300)

\* a plan: its mode, its priority and whether it has a directive
ActionPlan(mode, priority, directive) ==
    [mode |-> mode, priority |-> priority, directive |-> directive]

\* Director.decide_action lines 96-103: random.random() > state.sass * 0.3
ReactApplies(st, has_comments, roll) == has_comments /\ roll * Unit > st.sass * 300

\* lines 109-111: the mood is SASSY and random.random() < 0.4
TeaseApplies(st, roll) == st.mood = "SASSY" /\ roll < 400

\* decide_action with the idle rule tested before the boke and tease rules
decide_action_wait_first(st, in) ==
    IF ReactApplies(st, in.has_comments, in.roll_react)
    THEN ActionPlan("react", 10, TRUE)
    ELSE IF in.idle_time < 5
    THEN ActionPlan("wait", -1, FALSE)
    ELSE IF should_boke(st, in.boke_recent, in.roll_boke)
    THEN ActionPlan("boke", 5, TRUE)
    ELSE IF TeaseApplies(st, in.roll_tease)
    THEN ActionPlan("tease", 3, TRUE)
    ELSE IF should_change_topic(st, in.topic_old, in.roll_topic)
    THEN ActionPlan("monologue", 4, TRUE)
    ELSE ActionPlan("monologue", 1, TRUE)

\* Director.decide_action: in holds the context and what the clock and the
\* random generator give
decide_action(st, in) ==
    IF ReactApplies(st, in.has_comments, in.roll_react)
    THEN ActionPlan("react", 10, TRUE)
    ELSE IF should_boke(st, in.boke_recent, in.roll_boke)
    THEN ActionPlan("boke", 5, TRUE)
    ELSE IF TeaseApplies(st, in.roll_tease)
    THEN ActionPlan("tease", 3, TRUE)
    ELSE IF in.idle_time < 5
    THEN ActionPlan("wait", -1, FALSE)
    ELSE IF should_change_topic(st, in.topic_old, in.roll_topic)
    THEN ActionPlan("monologue", 4, TRUE)
    ELSE ActionPlan("monologue", 1, TRUE)

\* the fields of the state become those of st
SetAIState(st) ==
    /\ boredom' = st.boredom
    /\ energy' = st.energy
    /\ sass' = st.sass
    /\ focus' = st.focus
    /\ mood' = st.mood
    /\ consecutive_monologues' = st.consecutive_monologues

\* ai_state.update(elapsed, event) is called (bot.py:163, 287, 316-323); the
\* boke event sets last_boke_time to the time of the call
Update ==
    /\ \E elapsed_seconds \in ElapsedTimes, event \in EventNames \cup {"none"},
          topic_old \in BOOLEAN :
          /\ event = "monologue" => consecutive_monologues < MaxMonologues
          /\ SetAIState(update(AIStateNow, elapsed_seconds, event, topic_old))
          /\ boke_elapsed' = IF event = "boke" THEN 0 ELSE boke_elapsed
    /\ ncalls < MaxCalls
    /\ ncalls' = ncalls + 1
    /\ last_op' = "update"
    /\ decision' = NoDecision
    /\ UNCHANGED <<recent_actions, idle_time, current_topic, topics_discussed>>

\* ai_state.change_topic(topic_hint) is called (bot.py:320-321)
ChangeTopic ==
    /\ \E new_topic \in Topics :
          /\ topics_discussed' =
                discussed_after(current_topic, topics_discussed, new_topic)
          /\ current_topic' = new_topic
    /\ SetAIState(change_topic(AIStateNow))
    /\ ncalls < MaxCalls
    /\ ncalls' = ncalls + 1
    /\ last_op' = "change_topic"
    /\ decision' = NoDecision
    /\ UNCHANGED <<recent_actions, boke_elapsed, idle_time>>

\* the top of conversation_loop with the lock held (bot.py:286-287): the idle
\* time is read and the state drifts by it
LoopUpdate ==
    /\ \/ last_op = "record"
       \/ last_op = "decide" /\ decision.mode = "wait"
    /\ ncalls < MaxCalls
    /\ \E idle \in IdleTimes, topic_old \in BOOLEAN :
          /\ idle_time' = idle
          /\ SetAIState(update(AIStateNow, idle, "none", topic_old))
    /\ ncalls' = ncalls + 1
    /\ last_op' = "update"
    /\ decision' = NoDecision
    /\ UNCHANGED <<recent_actions, boke_elapsed, current_topic, topics_discussed>>

\* director.decide_action(ai_state, context) is called (bot.py:288-297); the
\* clock and the random generator are consulted only by the rules that are
\* reached, and what is not consulted is FALSE or 0 here
Decide ==
    /\ last_op = "update"
    /\ \E has_comments \in BOOLEAN :
       \E roll_react \in (IF has_comments THEN Rolls ELSE {0}) :
       LET react == ReactApplies(AIStateNow, has_comments, roll_react)
           boke_recent == ~react /\ boke_elapsed < BokeCooldown IN
       \E roll_boke \in (IF react \/ boke_recent THEN {0} ELSE Rolls) :
       LET boke == ~react /\ should_boke(AIStateNow, boke_recent, roll_boke) IN
       \E roll_tease \in (IF react \/ boke \/ mood # "SASSY" THEN {0} ELSE Rolls) :
       LET early == \/ react
                    \/ boke
                    \/ TeaseApplies(AIStateNow, roll_tease)
                    \/ idle_time < 5 IN
       \E topic_old \in (IF early THEN {FALSE} ELSE BOOLEAN) :
       \E roll_topic \in (IF early \/ topic_old \/ ~(focus < 300 /\ boredom > 500)
                          THEN {0} ELSE Rolls) :
          LET in == [has_comments |-> has_comments, roll_react |-> roll_react,
                     boke_recent |-> boke_recent, roll_boke |-> roll_boke,
                     roll_tease |-> roll_tease, idle_time |-> idle_time,
                     topic_old |-> topic_old, roll_topic |-> roll_topic]
              plan == decide_action(AIStateNow, in)
          IN  decision' = [made |-> TRUE, in |-> in, mode |-> plan.mode,
                           priority |-> plan.priority, directive |-> plan.directive]
    /\ last_op' = "decide"
    /\ UNCHANGED <<ncalls, recent_actions, boke_elapsed, idle_time, current_topic,
                   topics_discussed>>
    /\ UNCHANGED <<boredom, energy, sass, focus, mood, consecutive_monologues>>

\* the actions Director keeps (director.py:237)
RecentLimit == 10

\* how many actions are recorded in this model
MaxRecorded == 2

\* the event conversation_loop reports for a plan it carried out
\* (bot.py:316-323)
FeedbackEvent(mode) ==
    IF mode = "boke" THEN "boke"
    ELSE IF mode = "monologue" THEN "monologue"
    ELSE "spoke"

\* _plan_topic_change lines 185-191: the seeds not among the last three topics
\* discussed, or all of them
AvailableSeeds(discussed) ==
    LET n == Len(discussed)
        last3 == {discussed[i] : i \in (IF n > 3 THEN n - 2 ELSE 1)..n}
    IN  IF Topics \ last3 # {} THEN Topics \ last3 ELSE Topics

\* the plan was carried out and conversation_loop reports it to the state
\* (bot.py:315-323): the event of the mode and, for the plan of
\* _plan_topic_change (the monologue of priority 4), the change to its seed,
\* which random.choice picked
Feedback ==
    /\ last_op = "decide"
    /\ decision.made
    /\ decision.mode # "wait"
    /\ ncalls < MaxCalls
    /\ Len(recent_actions) < MaxRecorded
    /\ \E topic_old \in BOOLEAN :
         LET event == FeedbackEvent(decision.mode)
             st == update(AIStateNow, 0, event, topic_old)
         IN  /\ boke_elapsed' = IF event = "boke" THEN 0 ELSE boke_elapsed
             /\ IF decision.mode = "monologue" /\ decision.priority = 4
                THEN \E seed \in AvailableSeeds(topics_discussed) :
                        /\ SetAIState(change_topic(st))
                        /\ topics_discussed' =
                              discussed_after(current_topic, topics_discussed, seed)
                        /\ current_topic' = seed
                ELSE /\ SetAIState(st)
                     /\ UNCHANGED <<current_topic, topics_discussed>>
    /\ ncalls' = ncalls + 1
    /\ last_op' = "feedback"
    /\ UNCHANGED <<decision, recent_actions, idle_time>>

\* Director.record_action (director.py:234-239)
record_action(recent, mode) ==
    LET appended == Append(recent, mode)
    IN  IF Len(appended) > RecentLimit THEN Tail(appended) ELSE appended

\* record_action that also counts the monologue in the state
RecordActionCounting ==
    /\ last_op = "feedback"
    /\ recent_actions' = record_action(recent_actions, decision.mode)
    /\ last_op' = "record"
    /\ consecutive_monologues' =
          IF decision.mode = "monologue" THEN consecutive_monologues + 1
          ELSE consecutive_monologues
    /\ UNCHANGED <<decision, ncalls, boke_elapsed, idle_time, current_topic,
                   topics_discussed>>
    /\ UNCHANGED <<boredom, energy, sass, focus, mood>>

\* director.record_action(action) is called with the plan that was carried out
\* (bot.py:325)
RecordAction ==
    /\ last_op = "feedback"
    /\ recent_actions' = record_action(recent_actions, decision.mode)
    /\ last_op' = "record"
    /\ UNCHANGED <<decision, ncalls, boke_elapsed, idle_time, current_topic,
                   topics_discussed>>
    /\ UNCHANGED <<boredom, energy, sass, focus, mood, consecutive_monologues>>

\* the clock advances where conversation_loop awaits: while the plan is carried
\* out or slept on (bot.py:299-313) and in the sleeps after it (bot.py:327-331)
ClockTick ==
    /\ last_op \in {"decide", "record"}
    /\ boke_elapsed < BokeCooldown
    /\ boke_elapsed' = Min({BokeCooldown, boke_elapsed + ClockStep})
    /\ UNCHANGED <<boredom, energy, sass, focus, mood, consecutive_monologues,
                   last_op, decision, ncalls, recent_actions, idle_time,
                   current_topic, topics_discussed>>

----------------------------------------------------------------------------
(* Spec: the tasks of VTubeBot around processing_lock: conversation_loop,   *)
(* background_loop, vad_loop and the handle_audio tasks it creates.  A turn *)
(* is a call of process_and_respond; its generations are seen from outside *)
(* (SpecPipe and SpecParse look inside).  A step of a task runs from one   *)
(* await to the next.                                                      *)

MaxHandlers == 2
\* len(self.conversation_segment) >= 8
SegmentLimit == 8

DirectorTask == 0
BackgroundTask == -1
Handlers == 1..MaxHandlers
Tasks == {DirectorTask, BackgroundTask} \cup Handlers

\* ---- asyncio.Lock

NewLock == [locked |-> FALSE, waiters |-> <<>>, woken |-> FALSE]

\* Lock.acquire returns at once: the lock is free and nobody waits for it
CanTake(lk) == ~lk.locked /\ lk.waiters = <<>>

Taken(lk) == [lk EXCEPT !.locked = TRUE]

\* Lock.acquire waits: the task joins the waiters
Queued(lk, t) == [lk EXCEPT !.waiters = Append(@, t)]

\* Lock.release: the lock is free and the first waiter is woken
Released(lk) == [locked |-> FALSE, waiters |-> lk.waiters, woken |-> lk.waiters # <<>>]

\* the woken waiter runs again: it leaves the waiters and holds the lock
Resumed(lk) == [locked |-> TRUE, waiters |-> Tail(lk.waiters), woken |-> FALSE]

IsWoken(lk, t) == lk.woken /\ lk.waiters # <<>> /\ Head(lk.waiters) = t

\* if len(self.conversation_history) > 10
HistoryLimit == 10

\* an event reported to ai_state and the task that reported it
Reported(t, event) == [by |-> t, event |-> event]
NoEvent == Reported(BackgroundTask, "none")

\* the tasks are not running
BotIdle ==
    /\ ENABLE_VAD = FALSE
    /\ pc = [t \in Tasks |-> "none"]
    /\ processing_lock = NewLock
    /\ triggered = FALSE
    /\ idle_short = FALSE
    /\ conversation_segment = 0
    /\ gen_flag = "none"
    /\ conversation_history = 0
    /\ last_event = NoEvent

InTurn(t) == pc[t] \in {"gen1", "gen2"}

\* generate_and_process_stream is entered (ai_core.py:70-119): nothing there
\* touches the interruption event
FlagFound == IF interruption_event THEN "set" ELSE "unset"

AddSegment(n) == Min({SegmentLimit, conversation_segment + n})

\* process_and_respond lines 171-177: the text, if any, joins the history,
\* which is then cut to its last 10 entries
HistoryAtStart(n) == Min({HistoryLimit, conversation_history + n})

\* lines 315-323: conversation_loop reports the plan it carried out; the plan
\* decides which event
DirectorFeedback(t) ==
    IF t = DirectorTask
    THEN \E event \in {"boke", "monologue", "spoke"} : last_event' = Reported(t, event)
    ELSE UNCHANGED last_event

\* ---- conversation_loop (bot.py:272-331)

\* lines 284-313 with the lock held: the plan of the director is to wait (only
\* with a short idle time, director.py:114-119) or to speak
DirectorPlan(lk) ==
    /\ processing_lock' = lk
    /\ \E plan \in (IF idle_short THEN {"wait"} ELSE {}) \cup {"speak"} :
          IF plan = "wait"
          THEN /\ pc' = [pc EXCEPT ![DirectorTask] = "wait"]
               /\ UNCHANGED <<gen_flag, conversation_history>>
          ELSE /\ pc' = [pc EXCEPT ![DirectorTask] = "gen1"]
               /\ gen_flag' = FlagFound
               /\ conversation_history' = HistoryAtStart(0)
    /\ UNCHANGED last_event

\* the loop trusts locked() and goes on without taking the lock
DirectorLoopPollOnly(lk) ==
    IF lk.locked
    THEN /\ processing_lock' = lk
         /\ pc' = [pc EXCEPT ![DirectorTask] = "poll"]
         /\ UNCHANGED <<gen_flag, conversation_history, last_event>>
    ELSE DirectorPlan(lk)

\* lines 277-284 from the top of the loop: a locked lock sends the task to sleep
\* 0.1 s; otherwise the lock is taken, at once or after a wait
DirectorLoop(lk) ==
    IF lk.locked
    THEN /\ processing_lock' = lk
         /\ pc' = [pc EXCEPT ![DirectorTask] = "poll"]
         /\ UNCHANGED <<gen_flag, conversation_history, last_event>>
    ELSE IF CanTake(lk)
    THEN DirectorPlan(Taken(lk))
    ELSE /\ processing_lock' = Queued(lk, DirectorTask)
         /\ pc' = [pc EXCEPT ![DirectorTask] = "acquire"]
         /\ UNCHANGED <<gen_flag, conversation_history, last_event>>

DirectorPoll ==
    /\ pc[DirectorTask] = "poll"
    /\ DirectorLoop(processing_lock)
    /\ UNCHANGED <<ENABLE_VAD, triggered, idle_short, conversation_segment,
                   interruption_event>>

DirectorAcquired ==
    /\ pc[DirectorTask] = "acquire"
    /\ IsWoken(processing_lock, DirectorTask)
    /\ DirectorPlan(Resumed(processing_lock))
    /\ UNCHANGED <<ENABLE_VAD, triggered, idle_short, conversation_segment,
                   interruption_event>>

\* lines 299-301: the 5 s are over; continue leaves the with block, which
\* releases the lock, and the loop starts again
DirectorWaitEnd ==
    /\ pc[DirectorTask] = "wait"
    /\ idle_short' = FALSE
    /\ DirectorLoop(Released(processing_lock))
    /\ UNCHANGED <<ENABLE_VAD, triggered, conversation_segment, interruption_event>>

\* lines 328-331: the two sleeps of 10 s are over
DirectorSleepEnd ==
    /\ pc[DirectorTask] = "sleep"
    /\ pc' = [pc EXCEPT ![DirectorTask] = "poll"]
    /\ idle_short' = FALSE
    /\ UNCHANGED <<ENABLE_VAD, processing_lock, triggered, conversation_segment,
                   gen_flag, interruption_event>>
    /\ UNCHANGED <<conversation_history, last_event>>

\* ---- process_and_respond (bot.py:169-268), for the task that holds the lock

\* where the task goes when its turn is over, the lock released
AfterTurn(t) == IF t = DirectorTask THEN "sleep" ELSE "done"

\* lines 230-235: the first generation was rejected; the turn stops there
TurnRejected(t) ==
    /\ pc[t] = "gen1"
    /\ pc' = [pc EXCEPT ![t] = AfterTurn(t)]
    /\ processing_lock' = Released(processing_lock)
    /\ gen_flag' = "none"
    /\ DirectorFeedback(t)
    /\ UNCHANGED conversation_history
    /\ UNCHANGED <<ENABLE_VAD, triggered, idle_short, conversation_segment,
                   interruption_event>>

\* lines 213-228, 239, 268: the first generation returned and no follow-up is
\* needed; a spoken text joins the segment
TurnDone(t) ==
    /\ pc[t] = "gen1"
    /\ \E reply \in {"spoken", "tool", "nothing"} :
          /\ conversation_segment' = AddSegment(IF reply = "spoken" THEN 1 ELSE 0)
          /\ conversation_history' =
                conversation_history + (IF reply = "nothing" THEN 0 ELSE 1)
    /\ DirectorFeedback(t)
    /\ pc' = [pc EXCEPT ![t] = AfterTurn(t)]
    /\ processing_lock' = Released(processing_lock)
    /\ gen_flag' = "none"
    /\ idle_short' = TRUE
    /\ UNCHANGED <<ENABLE_VAD, triggered, interruption_event>>

\* lines 239-258: a thought without speech; the follow-up generation starts
TurnFollowUp(t) ==
    /\ pc[t] = "gen1"
    /\ pc' = [pc EXCEPT ![t] = "gen2"]
    /\ gen_flag' = FlagFound
    /\ UNCHANGED <<ENABLE_VAD, processing_lock, triggered, idle_short,
                   conversation_segment, interruption_event>>
    /\ UNCHANGED <<conversation_history, last_event>>

\* lines 259-268: the follow-up returned or raised
FollowUpDone(t) ==
    /\ pc[t] = "gen2"
    /\ \E spoken \in BOOLEAN :
          /\ conversation_segment' = AddSegment(IF spoken THEN 1 ELSE 0)
          /\ conversation_history' = conversation_history + (IF spoken THEN 1 ELSE 0)
    /\ DirectorFeedback(t)
    /\ pc' = [pc EXCEPT ![t] = AfterTurn(t)]
    /\ processing_lock' = Released(processing_lock)
    /\ gen_flag' = "none"
    /\ idle_short' = TRUE
    /\ UNCHANGED <<ENABLE_VAD, triggered, interruption_event>>

\* ---- handle_audio (bot.py:150-167)

\* handle_audio with a lock that is taken whenever it is free, the tasks
\* already waiting for it notwithstanding
HandlerStartBarging(h) ==
    /\ pc[h] = "created"
    /\ IF ~processing_lock.locked
       THEN /\ processing_lock' = Taken(processing_lock)
            /\ pc' = [pc EXCEPT ![h] = "transcribe"]
       ELSE /\ processing_lock' = Queued(processing_lock, h)
            /\ pc' = [pc EXCEPT ![h] = "acquire"]
    /\ UNCHANGED <<ENABLE_VAD, triggered, idle_short, conversation_segment, gen_flag,
                   interruption_event>>
    /\ UNCHANGED <<conversation_history, last_event>>

\* line 151: the new task runs and asks for the lock
HandlerStart(h) ==
    /\ pc[h] = "created"
    /\ IF CanTake(processing_lock)
       THEN /\ processing_lock' = Taken(processing_lock)
            /\ pc' = [pc EXCEPT ![h] = "transcribe"]
       ELSE /\ processing_lock' = Queued(processing_lock, h)
            /\ pc' = [pc EXCEPT ![h] = "acquire"]
    /\ UNCHANGED <<ENABLE_VAD, triggered, idle_short, conversation_segment, gen_flag,
                   interruption_event>>
    /\ UNCHANGED <<conversation_history, last_event>>

HandlerAcquired(h) ==
    /\ pc[h] = "acquire"
    /\ IsWoken(processing_lock, h)
    /\ processing_lock' = Resumed(processing_lock)
    /\ pc' = [pc EXCEPT ![h] = "transcribe"]
    /\ UNCHANGED <<ENABLE_VAD, triggered, idle_short, conversation_segment, gen_flag,
                   interruption_event>>
    /\ UNCHANGED <<conversation_history, last_event>>

\* handle_audio that puts the text in the history before it tests its length
HandlerIgnoredLogged(h) ==
    /\ pc[h] = "transcribe"
    /\ pc' = [pc EXCEPT ![h] = "done"]
    /\ processing_lock' = Released(processing_lock)
    /\ conversation_history' = HistoryAtStart(1)
    /\ UNCHANGED <<ENABLE_VAD, triggered, idle_short, conversation_segment, gen_flag,
                   interruption_event>>
    /\ UNCHANGED last_event

\* lines 152-160: the text is too short or was heard before; the task ends
HandlerIgnored(h) ==
    /\ pc[h] = "transcribe"
    /\ pc' = [pc EXCEPT ![h] = "done"]
    /\ processing_lock' = Released(processing_lock)
    /\ UNCHANGED <<ENABLE_VAD, triggered, idle_short, conversation_segment, gen_flag,
                   interruption_event>>
    /\ UNCHANGED <<conversation_history, last_event>>

\* lines 163-167 and 171-211: the turn of the user's text starts
HandlerTurn(h) ==
    /\ pc[h] = "transcribe"
    /\ pc' = [pc EXCEPT ![h] = "gen1"]
    /\ conversation_segment' = AddSegment(1)
    /\ conversation_history' = HistoryAtStart(1)
    /\ last_event' = Reported(h, "got_reaction")
    /\ gen_flag' = FlagFound
    /\ UNCHANGED <<ENABLE_VAD, processing_lock, triggered, idle_short,
                   interruption_event>>

\* ---- background_loop (bot.py:333-346)

\* lines 336-345: after the sleep, with the lock free and a long segment, the
\* lock is asked for
BackgroundTick ==
    /\ pc[BackgroundTask] = "sleep"
    /\ ~processing_lock.locked
    /\ conversation_segment >= SegmentLimit
    /\ IF CanTake(processing_lock)
       THEN \* consolidate_and_store raises at once (summarizer.py:26-29, a
            \* keyword llm_inference does not have): the lock is released and
            \* the task is over
            /\ processing_lock' = Released(Taken(processing_lock))
            /\ pc' = [pc EXCEPT ![BackgroundTask] = "dead"]
       ELSE /\ processing_lock' = Queued(processing_lock, BackgroundTask)
            /\ pc' = [pc EXCEPT ![BackgroundTask] = "acquire"]
    /\ UNCHANGED <<ENABLE_VAD, triggered, idle_short, conversation_segment, gen_flag,
                   interruption_event>>
    /\ UNCHANGED <<conversation_history, last_event>>

BackgroundAcquired ==
    /\ pc[BackgroundTask] = "acquire"
    /\ IsWoken(processing_lock, BackgroundTask)
    /\ processing_lock' = Released(Resumed(processing_lock))
    /\ pc' = [pc EXCEPT ![BackgroundTask] = "dead"]
    /\ UNCHANGED <<ENABLE_VAD, triggered, idle_short, conversation_segment, gen_flag,
                   interruption_event>>
    /\ UNCHANGED <<conversation_history, last_event>>

\* ---- vad_loop (bot.py:115-147)

\* lines 126-128: speech while the lock is locked
VadInterrupt ==
    /\ ENABLE_VAD
    /\ processing_lock.locked
    /\ interruption_event' = TRUE
    /\ UNCHANGED <<ENABLE_VAD, pc, processing_lock, triggered, idle_short,
                   conversation_segment, gen_flag>>
    /\ UNCHANGED <<conversation_history, last_event>>

\* lines 130-136: speech while the lock is free
VadSpeech ==
    /\ ENABLE_VAD
    /\ ~processing_lock.locked
    /\ triggered' = TRUE
    /\ UNCHANGED <<ENABLE_VAD, pc, processing_lock, idle_short, conversation_segment,
                   gen_flag, interruption_event>>
    /\ UNCHANGED <<conversation_history, last_event>>

\* lines 137-147: the pause after the speech is long enough, a handle_audio
\* task is created
VadUtterance(h) ==
    /\ ENABLE_VAD
    /\ ~processing_lock.locked
    /\ triggered
    /\ pc[h] = "none"
    /\ \A g \in Handlers : g < h => pc[g] # "none"
    /\ triggered' = FALSE
    /\ idle_short' = TRUE
    /\ pc' = [pc EXCEPT ![h] = "created"]
    /\ UNCHANGED <<ENABLE_VAD, processing_lock, conversation_segment, gen_flag,
                   interruption_event>>
    /\ UNCHANGED <<conversation_history, last_event>>

\* 5 s went by since reset_idle_timer
TimePasses ==
    /\ idle_short
    /\ idle_short' = FALSE
    /\ UNCHANGED <<ENABLE_VAD, pc, processing_lock, triggered, conversation_segment,
                   gen_flag, interruption_event>>
    /\ UNCHANGED <<conversation_history, last_event>>

----------------------------------------------------------------------------
(* SpecPipe: one call of generate_and_process_stream with its two tasks,    *)
(* tts_worker and AudioPlayer.stream_audio.  The parser is the producer of  *)
(* sentences; a sentence is named by its rank in the stream.  A step of a   *)
(* task runs from one await to the next.                                    *)

MaxSentences == 2
MaxChunks == 4
\* audio_stream_queue = asyncio.Queue(maxsize=5)
AudioQueueSize == 5

Chunk(s, k) == [s |-> s, k |-> k]
NoChunk == Chunk(0, 0)

\* no generation is running
PipeIdle ==
    /\ gen_pc = "returned"
    /\ gen_exit = "none"
    /\ nsent = 0
    /\ sentence_queue = <<>>
    /\ audio_stream_queue = <<>>
    /\ tts_pc = "done"
    /\ tts_cur = NoChunk
    /\ failed = {}
    /\ play_pc = "done"
    /\ attempted = <<>>
    /\ audio_puts = <<>>
    /\ played = <<>>
    /\ interruption_event = FALSE

\* the newest entry
QueueGetNewest(q) == [item |-> q[Len(q)], rest |-> SubSeq(q, 1, Len(q) - 1)]

\* asyncio.Queue.get: the oldest entry
QueueGet(q) == [item |-> Head(q), rest |-> Tail(q)]

\* asyncio.Queue.full() of audio_stream_queue
AudioFull == Len(audio_stream_queue) >= AudioQueueSize

\* stream_audio was woken in get by an entry and has not run yet.  The event
\* loop runs it before any step that waits for a thread or a timer to end: a
\* chunk of generate_speech (tts_manager.py:78) or the timeout of the teardown
PlayerWoken == play_pc = "get" /\ audio_stream_queue # <<>>

TaskOver(at) == at \in {"done", "cancelled"}

\* lines 160-175, 204-217, 226-233: the parser puts a sentence
GenSentence ==
    /\ gen_pc = "run"
    /\ nsent < MaxSentences
    /\ nsent' = nsent + 1
    /\ sentence_queue' = Append(sentence_queue, nsent + 1)
    /\ UNCHANGED <<gen_pc, gen_exit, audio_stream_queue, tts_pc, tts_cur, failed,
                   play_pc, attempted, audio_puts, played, interruption_event>>

\* lines 161-164 and 235-237: a rejection puts the sentinel and raises; the
\* finally clause puts the sentinel and waits for the tasks
GenReject ==
    /\ gen_pc = "run"
    /\ gen_pc' = "teardown"
    /\ gen_exit' = "rejected"
    /\ sentence_queue' = sentence_queue \o <<0, 0>>
    /\ UNCHANGED <<nsent, audio_stream_queue, tts_pc, tts_cur, failed, play_pc,
                   attempted, audio_puts, played, interruption_event>>

\* lines 235-237 after the stream ended: the sentinel, then the wait
GenEnd ==
    /\ gen_pc = "run"
    /\ gen_pc' = "teardown"
    /\ gen_exit' = "normal"
    /\ sentence_queue' = Append(sentence_queue, 0)
    /\ UNCHANGED <<nsent, audio_stream_queue, tts_pc, tts_cur, failed, play_pc,
                   attempted, audio_puts, played, interruption_event>>

\* line 240: both tasks are over, gather returns
TeardownDone ==
    /\ gen_pc = "teardown"
    /\ TaskOver(tts_pc) /\ TaskOver(play_pc)
    /\ gen_pc' = "returned"
    /\ UNCHANGED <<gen_exit, nsent, sentence_queue, audio_stream_queue, tts_pc,
                   tts_cur, failed, play_pc, attempted, audio_puts, played,
                   interruption_event>>

\* the wait for the tasks without a timeout: it ends only when both are over
TeardownNoTimeout ==
    /\ gen_pc = "teardown"
    /\ TaskOver(tts_pc) /\ TaskOver(play_pc)
    /\ gen_pc' = "returned"
    /\ UNCHANGED <<gen_exit, nsent, sentence_queue, audio_stream_queue, tts_pc,
                   tts_cur, failed, play_pc, attempted, audio_puts, played,
                   interruption_event>>

\* lines 240-242: after 30 s the timeout of asyncio.wait_for cancels the
\* gather, which cancels the tasks that are not over; the turn goes on
TeardownTimeout ==
    /\ gen_pc = "teardown"
    /\ tts_pc # "start"
    /\ ~PlayerWoken
    /\ ~(TaskOver(tts_pc) /\ TaskOver(play_pc))
    /\ gen_pc' = "returned"
    /\ tts_pc' = IF TaskOver(tts_pc) THEN tts_pc ELSE "cancelled"
    /\ play_pc' = IF TaskOver(play_pc) THEN play_pc ELSE "cancelled"
    /\ UNCHANGED <<gen_exit, nsent, sentence_queue, audio_stream_queue, tts_cur,
                   failed, attempted, audio_puts, played, interruption_event>>

\* bot.py:126-127: vad_loop hears speech while the turn holds the lock
Interrupt ==
    /\ gen_pc # "returned"
    /\ ~interruption_event
    /\ interruption_event' = TRUE
    /\ UNCHANGED <<gen_pc, gen_exit, nsent, sentence_queue, audio_stream_queue,
                   tts_pc, tts_cur, failed, play_pc, attempted, audio_puts, played>>

\* ---- tts_worker (ai_core.py:94-111)

\* lines 97-100: a sentence or the sentinel is taken; the sentinel is passed on
\* when there is room for it
TtsGet ==
    /\ tts_pc = "get"
    /\ sentence_queue # <<>>
    /\ LET g == QueueGet(sentence_queue)
       IN  /\ sentence_queue' = g.rest
           /\ IF g.item = 0
              THEN /\ tts_cur' = NoChunk
                   /\ IF AudioFull
                      THEN /\ tts_pc' = "putnone"
                           /\ UNCHANGED <<audio_stream_queue, audio_puts>>
                      ELSE /\ tts_pc' = "done"
                           /\ audio_stream_queue' = Append(audio_stream_queue, NoChunk)
                           /\ audio_puts' = Append(audio_puts, NoChunk)
              ELSE /\ tts_cur' = Chunk(g.item, 0)
                   /\ tts_pc' = "synth"
                   /\ UNCHANGED <<audio_stream_queue, audio_puts>>
    /\ UNCHANGED <<gen_pc, gen_exit, nsent, failed, play_pc, attempted, played,
                   interruption_event>>

\* line 99, blocked: room was made for the sentinel
TtsPutNone ==
    /\ tts_pc = "putnone"
    /\ ~AudioFull
    /\ tts_pc' = "done"
    /\ audio_stream_queue' = Append(audio_stream_queue, NoChunk)
    /\ audio_puts' = Append(audio_puts, NoChunk)
    /\ UNCHANGED <<gen_pc, gen_exit, nsent, sentence_queue, tts_cur, failed, play_pc,
                   attempted, played, interruption_event>>

\* lines 103-107: generate_speech yields a chunk; an interruption leaves the
\* sentence, otherwise the chunk is put, at once when there is room
TtsYield ==
    /\ tts_pc = "synth"
    /\ ~PlayerWoken
    /\ tts_cur.k < MaxChunks
    /\ LET c == Chunk(tts_cur.s, tts_cur.k + 1)
       IN  IF interruption_event
           THEN /\ tts_pc' = "get"
                /\ tts_cur' = NoChunk
                /\ UNCHANGED <<audio_stream_queue, attempted, audio_puts>>
           ELSE /\ tts_cur' = c
                /\ attempted' = Append(attempted, c)
                /\ IF AudioFull
                   THEN /\ tts_pc' = "put"
                        /\ UNCHANGED <<audio_stream_queue, audio_puts>>
                   ELSE /\ tts_pc' = "synth"
                        /\ audio_stream_queue' = Append(audio_stream_queue, c)
                        /\ audio_puts' = Append(audio_puts, c)
    /\ UNCHANGED <<gen_pc, gen_exit, nsent, sentence_queue, failed, play_pc, played,
                   interruption_event>>

\* line 107, blocked: room was made for the chunk
TtsPut ==
    /\ tts_pc = "put"
    /\ ~AudioFull
    /\ tts_pc' = "synth"
    /\ audio_stream_queue' = Append(audio_stream_queue, tts_cur)
    /\ audio_puts' = Append(audio_puts, tts_cur)
    /\ UNCHANGED <<gen_pc, gen_exit, nsent, sentence_queue, tts_cur, failed, play_pc,
                   attempted, played, interruption_event>>

\* lines 103, 110-111: generate_speech has no more chunk for the sentence
TtsSentenceDone ==
    /\ tts_pc = "synth"
    /\ ~PlayerWoken
    /\ tts_pc' = "get"
    /\ tts_cur' = NoChunk
    /\ UNCHANGED <<gen_pc, gen_exit, nsent, sentence_queue, audio_stream_queue,
                   failed, play_pc, attempted, audio_puts, played, interruption_event>>

\* generate_speech raises and the error ends tts_worker
TtsErrorFatal ==
    /\ tts_pc = "synth"
    /\ ~PlayerWoken
    /\ tts_pc' = "done"
    /\ failed' = failed \cup {tts_cur.s}
    /\ tts_cur' = NoChunk
    /\ UNCHANGED <<gen_pc, gen_exit, nsent, sentence_queue, audio_stream_queue,
                   play_pc, attempted, audio_puts, played, interruption_event>>

\* lines 108-111: generate_speech raises; the error is printed
TtsError ==
    /\ tts_pc = "synth"
    /\ ~PlayerWoken
    /\ tts_pc' = "get"
    /\ failed' = failed \cup {tts_cur.s}
    /\ tts_cur' = NoChunk
    /\ UNCHANGED <<gen_pc, gen_exit, nsent, sentence_queue, audio_stream_queue,
                   play_pc, attempted, audio_puts, played, interruption_event>>

\* ---- AudioPlayer.stream_audio (audio_player.py:57-71)

\* the loop of stream_audio without the test of the interruption
PlayerLoopUnchecked ==
    IF audio_stream_queue = <<>>
    THEN /\ play_pc' = "get"
         /\ UNCHANGED <<audio_stream_queue, played>>
    ELSE LET g == QueueGet(audio_stream_queue)
         IN  /\ audio_stream_queue' = g.rest
             /\ IF g.item = NoChunk
                THEN play_pc' = "done" /\ UNCHANGED played
                ELSE play_pc' = "playing" /\ played' = Append(played, g.item)

\* lines 58-71 from the top of the loop to the next await: with the interruption
\* set the queue is emptied and the task ends; an entry in the queue is taken at
\* once (the sentinel ends the task, a chunk starts to play); an empty queue
\* suspends the task in get
PlayerLoop ==
    IF interruption_event
    THEN /\ audio_stream_queue' = <<>>
         /\ play_pc' = "done"
         /\ UNCHANGED played
    ELSE IF audio_stream_queue = <<>>
    THEN /\ play_pc' = "get"
         /\ UNCHANGED <<audio_stream_queue, played>>
    ELSE LET g == QueueGet(audio_stream_queue)
         IN  /\ audio_stream_queue' = g.rest
             /\ IF g.item = NoChunk
                THEN play_pc' = "done" /\ UNCHANGED played
                ELSE play_pc' = "playing" /\ played' = Append(played, g.item)

\* the two tasks run for the first time, tts_worker and then stream_audio, in
\* the first round of the event loop after their creation (ai_core.py:114-115):
\* tts_worker waits for a sentence, stream_audio for an entry
TasksStart ==
    /\ tts_pc = "start" /\ play_pc = "start"
    /\ tts_pc' = "get"
    /\ PlayerLoop
    /\ UNCHANGED <<gen_pc, gen_exit, nsent, sentence_queue, tts_cur, failed,
                   attempted, audio_puts, interruption_event>>

\* line 66, suspended: an entry arrived.  play_audio_with_lip_sync returns at
\* once with the interruption set (audio_player.py:19), and the loop then
\* empties the queue
PlayGet ==
    /\ play_pc = "get"
    /\ audio_stream_queue # <<>>
    /\ LET g == QueueGet(audio_stream_queue)
       IN  IF g.item = NoChunk
           THEN /\ audio_stream_queue' = g.rest
                /\ play_pc' = "done"
                /\ UNCHANGED played
           ELSE IF interruption_event
           THEN /\ audio_stream_queue' = <<>>
                /\ play_pc' = "done"
                /\ UNCHANGED played
           ELSE /\ audio_stream_queue' = g.rest
                /\ play_pc' = "playing"
                /\ played' = Append(played, g.item)
    /\ UNCHANGED <<gen_pc, gen_exit, nsent, sentence_queue, tts_pc, tts_cur, failed,
                   attempted, audio_puts, interruption_event>>

\* audio_player.py:45-49: the sound ended, or the poll saw the interruption and
\* stopped it; the loop goes round
PlayEnd ==
    /\ play_pc = "playing"
    /\ PlayerLoop
    /\ UNCHANGED <<gen_pc, gen_exit, nsent, sentence_queue, tts_pc, tts_cur, failed,
                   attempted, audio_puts, interruption_event>>

----------------------------------------------------------------------------
(* SpecLip: AudioPlayer.play_audio_with_lip_sync (audio_player.py) for one  *)
(* chunk with audio, with generate_lip_sync (lip_sync.py) and               *)
(* VtubeStudioClient.send_lip_sync (vtube_client.py).  A mouth_open value   *)
(* is counted in thousandths and a time in milliseconds.  A step runs from  *)
(* one await to the next.                                                   *)

\* the longest text of a chunk in this model
MaxLipText == 3

\* a vowel, a consonant and a character that is neither
LipAlphabet == {"a", "b", " "}

LipTexts == UNION {[1..n -> LipAlphabet] : n \in 0..MaxLipText}

\* generate_lip_sync: one frame per character
generate_lip_sync(text) ==
    [i \in 1..Len(text) |->
        IF text[i] \in {"a", "e", "i", "o", "u"}
        THEN [time |-> 100, mouth_open |-> 800]
        ELSE IF text[i] \in {"b", "c", "d", "f", "g", "h", "j", "k", "l", "m", "n",
                             "p", "q", "r", "s", "t", "v", "w", "x", "y", "z"}
        THEN [time |-> 50, mouth_open |-> 200]
        ELSE [time |-> 50, mouth_open |-> 0]]

\* dict.get(key, default)
DictGet(d, key, default) == IF key \in DOMAIN d THEN d[key] ELSE default

\* the dict play_audio_with_lip_sync gives to send_lip_sync
JawOpen(value) == [jaw_open |-> value]

\* VtubeStudioClient.send_lip_sync: with the socket connected, the MouthOpen
\* value of the message is phonemes_with_timing.get("smile", 0); frame is the
\* rank of the frame the call is made for, 0 for the call after the loop
send_lip_sync(log, frame, phonemes_with_timing) ==
    Append(log, [frame |-> frame,
                 given |-> phonemes_with_timing,
                 sent |-> connected,
                 MouthOpen |-> IF connected
                               THEN DictGet(phonemes_with_timing, "smile", 0)
                               ELSE 0])

\* no chunk is being played
LipIdle ==
    /\ lip_sync_data = <<>>
    /\ lip_idx = 0
    /\ lip_elapsed = 0
    /\ lip_pc = "idle"
    /\ lip_log = <<>>
    /\ connected = FALSE

\* lines 19-29: the call returns at once under an interruption; the sound
\* starts, and the frames, if any, are gone through
LipStart ==
    /\ lip_pc = "start"
    /\ lip_pc' = IF interruption_event THEN "done"
                 ELSE IF lip_sync_data # <<>> THEN "frames"
                 ELSE "busy"
    /\ lip_idx' = 1
    /\ UNCHANGED <<lip_sync_data, lip_elapsed, lip_log, connected, interruption_event>>

\* lines 30-41, one pass of the loop over the frames: an interruption stops
\* the sound and leaves the loop, and the call of line 43 follows; otherwise
\* the frame is sent if its time has come, and the task sleeps 10 ms or more
LipFrame ==
    /\ lip_pc = "frames"
    /\ lip_idx <= Len(lip_sync_data)
    /\ IF interruption_event
       THEN /\ lip_log' = send_lip_sync(lip_log, 0, JawOpen(0))
            /\ lip_pc' = "busy"
            /\ UNCHANGED <<lip_idx, lip_elapsed>>
       ELSE /\ lip_log' = IF lip_elapsed >= lip_sync_data[lip_idx].time
                          THEN send_lip_sync(lip_log, lip_idx,
                                             JawOpen(lip_sync_data[lip_idx].mouth_open))
                          ELSE lip_log
            /\ lip_idx' = lip_idx + 1
            /\ \E slept \in {10, 50} :
                   lip_elapsed' = Min({100, lip_elapsed + slept})
            /\ UNCHANGED lip_pc
    /\ UNCHANGED <<lip_sync_data, connected, interruption_event>>

\* line 43: the loop went through all the frames
LipClose ==
    /\ lip_pc = "frames"
    /\ lip_idx > Len(lip_sync_data)
    /\ lip_log' = send_lip_sync(lip_log, 0, JawOpen(0))
    /\ lip_pc' = "busy"
    /\ UNCHANGED <<lip_sync_data, lip_idx, lip_elapsed, connected, interruption_event>>

\* lines 45-49: the sound is over, or an interruption stops it
LipBusy ==
    /\ lip_pc = "busy"
    /\ lip_pc' = "done"
    /\ UNCHANGED <<lip_sync_data, lip_idx, lip_elapsed, lip_log, connected,
                   interruption_event>>

\* the teardown of the generation gives up after 30 s and cancels the task of
\* stream_audio (ai_core.py:238-242): CancelledError is raised in the sleep the
\* task is in (lines 41, 49), and "except Exception" does not catch it
LipCancel ==
    /\ \/ lip_pc = "frames" /\ lip_idx > 1
       \/ lip_pc = "busy"
    /\ lip_pc' = "cancelled"
    /\ UNCHANGED <<lip_sync_data, lip_idx, lip_elapsed, lip_log, connected,
                   interruption_event>>

\* vad_loop hears speech during the turn (bot.py:126-128)
LipInterrupt ==
    /\ lip_pc \in {"start", "frames", "busy"}
    /\ ~interruption_event
    /\ interruption_event' = TRUE
    /\ UNCHANGED lipVars

\* on_close, in the thread of the socket (vtube_client.py:40-42)
WsClose ==
    /\ lip_pc \in {"start", "frames", "busy"}
    /\ connected
    /\ connected' = FALSE
    /\ UNCHANGED <<lip_sync_data, lip_idx, lip_elapsed, lip_pc, lip_log,
                   interruption_event>>

----------------------------------------------------------------------------
(* SpecParse: the turns of one task at the level of the text.               *)
(* process_and_respond calls generate_and_process_stream, whose stream      *)
(* arrives in fragments of any length, and may call it once more.           *)

MaxFrag == 3
MaxTurns == 2

HiThere == Chars("<speak>Hi there. How are you?</speak>")
WaitTag == Chars("<wait time=\"3\"/>")
ToolTag == Chars("<tool name=\"web_search\" args=\"weather today\"/>")
TwoSentences == Chars("<speak>Hello! Fine?</speak>")
UnsafeTail == Chars("<speak>") \o NsfwWord \o Chars("!")
UnsafeSecond ==
    Chars("<speak>Good day!") \o NsfwWord \o Chars("!</speak><speak>more!</speak>")
Mismatched == Chars("<speak>ab</thought>cd!ef</speak>")
NoAttrs == Chars("<tool/><wait/>")
ThoughtOnly == Chars("<thought>hm</thought>")
ThoughtThenSpeak == Chars("<thought>hm</thought><wait time=\"3\"/><speak>Okay then!</speak>")
UnknownTool == Chars("<tool name=\"x\"/>")
ToolContent == Chars("<tool name=\"x\">q</tool><wait time=\"12\"/>")
PersonaViolation == Chars("<speak>") \o BannedPhrase \o Chars("!</speak>")
ToolThenWait == Chars("<tool name=\"web_search\" args=\"a\"/><wait time=\"3\"/>")
\* the stream ends inside a speak tag, after a text without a sentence mark
Unclosed == Chars("<speak>Hi! Okay then")

\* the streams the language model produces in this model
Inputs ==
    {HiThere, WaitTag, ToolTag, TwoSentences, UnsafeTail, UnsafeSecond,
     Mismatched, NoAttrs, ThoughtOnly, ThoughtThenSpeak, UnknownTool, ToolContent,
     ToolThenWait, PersonaViolation, Unclosed}

\* the locals of the running generation and what it did so far
ParseState ==
    [buffer |-> buffer, current_tag |-> current_tag, speak_buffer |-> speak_buffer,
     events |-> events, queued |-> queued, tool_results |-> tool_results,
     halt |-> FALSE, raised |-> FALSE]

SetParse(st) ==
    /\ buffer' = st.buffer
    /\ current_tag' = st.current_tag
    /\ speak_buffer' = st.speak_buffer
    /\ events' = st.events
    /\ queued' = st.queued
    /\ tool_results' = st.tool_results

\* generate_and_process_stream is entered (lines 77-115) for the stream text
BeginGeneration(text) ==
    /\ SetParse(NewParse(tool_results))
    /\ stream_rest' = text
    /\ complete_response' = <<>>
    /\ frags' = 0
    /\ parse_pc' = "streaming"

\* re.findall(r'<speak>(.*?)</speak>', response, re.DOTALL): the stripped parts
\* that are not blank, joined by a space
RECURSIVE SpeakParts(_)
SpeakParts(response) ==
    LET a == Find(response, Chars("<speak>"), 1)
        b == Find(response, Chars("</speak>"), a + 7)
        part == Strip(SubSeq(response, a + 7, b - 1))
        rest == SpeakParts(From(response, b + 8))
    IN  IF a = 0 \/ b = 0 THEN <<>>
        ELSE IF part = <<>> THEN rest
        ELSE IF rest = <<>> THEN part
        ELSE part \o <<" ">> \o rest

\* AI_Core.extract_speak_text
extract_speak_text(full_response) == filter_for_tts(SpeakParts(full_response))

\* bot.py:239: a thought, no speech and no tool call
NeedsFollowUp(response) ==
    /\ response # <<>>
    /\ Contains(response, Chars("<thought>"))
    /\ extract_speak_text(response) = <<>>
    /\ ~Contains(response, Chars("<tool"))

\* the tool results put into the request of a streamed generation: none.
\* inference_stream is given the messages of process_and_respond as they are
\* (ai_core.py:119); only llm_inference reads the accumulator (ai_core.py:61-64)
InjectedResults(results) == <<>>

\* handle_audio or conversation_loop calls process_and_respond (bot.py:169-211)
StartTurn ==
    /\ parse_pc = "idle"
    /\ turn_no < MaxTurns
    /\ \E text \in Inputs : BeginGeneration(text)
    /\ gen_no' = 1
    /\ turn_no' = turn_no + 1
    /\ UNCHANGED <<tool_raises, rejected>>

\* one fragment arrives: the body of "async for chunk" (ai_core.py:119-223); a
\* SafetyViolationError leaves through the finally clause (lines 235-237)
StreamChunk ==
    /\ parse_pc = "streaming"
    /\ stream_rest # <<>>
    /\ \E k \in (1..MaxFrag) \cup {Len(stream_rest)} :
         /\ k <= Len(stream_rest)
         /\ LET chunk == SubSeq(stream_rest, 1, k)
                st == OnChunk(ParseState, chunk, tool_raises)
            IN  /\ stream_rest' = From(stream_rest, k + 1)
                /\ complete_response' = complete_response \o chunk
                /\ IF st.raised
                   THEN SetParse(Finally(st)) /\ parse_pc' = "aborted"
                   ELSE SetParse(st) /\ parse_pc' = "streaming"
    /\ frags' = IF frags < 2 THEN frags + 1 ELSE 2
    /\ UNCHANGED <<tool_raises, gen_no, turn_no, rejected>>

\* the stream is exhausted: the final flush, the finally clause, the return
\* (ai_core.py:225-244)
StreamEnd ==
    /\ parse_pc = "streaming"
    /\ stream_rest = <<>>
    /\ SetParse(Finally(FinalFlush(ParseState)))
    /\ parse_pc' = "done"
    /\ UNCHANGED <<stream_rest, complete_response, frags, tool_raises, gen_no,
                   turn_no, rejected>>

\* the rejected generation is run again
RespondAbortedRetry ==
    /\ parse_pc = "aborted"
    /\ gen_no = 1
    /\ BeginGeneration(complete_response \o stream_rest)
    /\ gen_no' = 2
    /\ rejected' = rejected \cup {turn_no}
    /\ UNCHANGED <<tool_raises, turn_no>>

\* process_and_respond after the generation raised: SafetyViolationError is
\* caught and the turn returns (bot.py:230-235); in the follow-up every
\* exception is caught (bot.py:265-266)
RespondAborted ==
    /\ parse_pc = "aborted"
    /\ parse_pc' = "idle"
    /\ rejected' = IF gen_no = 1 THEN rejected \cup {turn_no} ELSE rejected
    /\ UNCHANGED <<stream_rest, complete_response, frags, tool_raises, gen_no,
                   turn_no, buffer, current_tag, speak_buffer, events, queued,
                   tool_results>>

\* the follow-up is asked for after every generation without speech
RespondDoneAgain ==
    /\ parse_pc = "done"
    /\ IF NeedsFollowUp(complete_response)
       THEN /\ \E text \in Inputs : BeginGeneration(text)
            /\ gen_no' = IF gen_no < 3 THEN gen_no + 1 ELSE gen_no
       ELSE /\ parse_pc' = "idle"
            /\ UNCHANGED <<stream_rest, complete_response, frags, gen_no, buffer,
                           current_tag, speak_buffer, events, queued, tool_results>>
    /\ UNCHANGED <<tool_raises, turn_no, rejected>>

\* process_and_respond after the generation returned (bot.py:213-268): the one
\* corrective follow-up, or the return
RespondDone ==
    /\ parse_pc = "done"
    /\ IF gen_no = 1 /\ NeedsFollowUp(complete_response)
       THEN /\ \E text \in Inputs : BeginGeneration(text)
            /\ gen_no' = 2
       ELSE /\ parse_pc' = "idle"
            /\ UNCHANGED <<stream_rest, complete_response, frags, gen_no, buffer,
                           current_tag, speak_buffer, events, queued, tool_results>>
    /\ UNCHANGED <<tool_raises, turn_no, rejected>>

\* no turn has run
ParseIdle ==
    /\ stream_rest = <<>>
    /\ frags = 0
    /\ gen_no = 0
    /\ turn_no = 0
    /\ rejected = {}
    /\ buffer = <<>>
    /\ current_tag = "none"
    /\ speak_buffer = <<>>
    /\ complete_response = <<>>
    /\ events = <<>>
    /\ queued = <<>>
    /\ tool_results = <<>>
    /\ parse_pc = "idle"

InitParse ==
    /\ ParseIdle
    /\ tool_raises \in BOOLEAN
    /\ PipeIdle
    /\ BotIdle
    /\ SplitIdle
    /\ LipIdle
    /\ BrainIdle

NextParse ==
    \/ (StartTurn /\ UNCHANGED <<pipeVars, botVars, brainVars, splitVars, lipVars>>)
    \/ (StreamChunk /\ UNCHANGED <<pipeVars, botVars, brainVars, splitVars, lipVars>>)
    \/ (StreamEnd /\ UNCHANGED <<pipeVars, botVars, brainVars, splitVars, lipVars>>)
    \/ (RespondAborted /\ UNCHANGED <<pipeVars, botVars, brainVars, splitVars, lipVars>>)
    \/ (RespondDone /\ UNCHANGED <<pipeVars, botVars, brainVars, splitVars, lipVars>>)

SpecParse == InitParse /\ [][NextParse]_vars

\* generate_and_process_stream was entered: the queues are new, the tasks are
\* created (lines 91-115); the interruption event is as an earlier turn left it
InitPipe ==
    /\ ParseIdle
    /\ tool_raises = FALSE
    /\ gen_pc = "run"
    /\ gen_exit = "none"
    /\ nsent = 0
    /\ sentence_queue = <<>>
    /\ audio_stream_queue = <<>>
    /\ tts_pc = "start"
    /\ tts_cur = NoChunk
    /\ failed = {}
    /\ play_pc = "start"
    /\ attempted = <<>>
    /\ audio_puts = <<>>
    /\ played = <<>>
    /\ interruption_event \in BOOLEAN
    /\ BotIdle
    /\ SplitIdle
    /\ LipIdle
    /\ BrainIdle

NextPipe ==
    \/ (GenSentence /\ UNCHANGED <<parseVars, botVars, brainVars, splitVars, lipVars>>)
    \/ (GenReject /\ UNCHANGED <<parseVars, botVars, brainVars, splitVars, lipVars>>)
    \/ (GenEnd /\ UNCHANGED <<parseVars, botVars, brainVars, splitVars, lipVars>>)
    \/ (TeardownDone /\ UNCHANGED <<parseVars, botVars, brainVars, splitVars, lipVars>>)
    \/ (TeardownTimeout /\ UNCHANGED <<parseVars, botVars, brainVars, splitVars, lipVars>>)
    \/ (Interrupt /\ UNCHANGED <<parseVars, botVars, brainVars, splitVars, lipVars>>)
    \/ (TasksStart /\ UNCHANGED <<parseVars, botVars, brainVars, splitVars, lipVars>>)
    \/ (TtsGet /\ UNCHANGED <<parseVars, botVars, brainVars, splitVars, lipVars>>)
    \/ (TtsPutNone /\ UNCHANGED <<parseVars, botVars, brainVars, splitVars, lipVars>>)
    \/ (TtsYield /\ UNCHANGED <<parseVars, botVars, brainVars, splitVars, lipVars>>)
    \/ (TtsPut /\ UNCHANGED <<parseVars, botVars, brainVars, splitVars, lipVars>>)
    \/ (TtsSentenceDone /\ UNCHANGED <<parseVars, botVars, brainVars, splitVars, lipVars>>)
    \/ (TtsError /\ UNCHANGED <<parseVars, botVars, brainVars, splitVars, lipVars>>)
    \/ (PlayGet /\ UNCHANGED <<parseVars, botVars, brainVars, splitVars, lipVars>>)
    \/ (PlayEnd /\ UNCHANGED <<parseVars, botVars, brainVars, splitVars, lipVars>>)

SpecPipe == InitPipe /\ [][NextPipe]_vars

\* a step of the pipeline
PipeStep(A) == A /\ UNCHANGED <<parseVars, botVars, brainVars, splitVars, lipVars>>

\* what the event loop and the stream guarantee: the stream of the model ends,
\* a task that can run is run, a sound ends, and the timer of wait_for fires.
\* Nothing makes generate_speech come back: TtsYield, TtsSentenceDone and
\* TtsError may never happen
PipeFairness ==
    /\ WF_vars(PipeStep(GenEnd))
    /\ WF_vars(PipeStep(TasksStart))
    /\ WF_vars(PipeStep(TtsGet))
    /\ WF_vars(PipeStep(TtsPutNone))
    /\ WF_vars(PipeStep(TtsPut))
    /\ WF_vars(PipeStep(PlayGet))
    /\ WF_vars(PipeStep(PlayEnd))
    /\ WF_vars(PipeStep(TeardownDone))
    /\ WF_vars(PipeStep(TeardownTimeout))

SpecPipeFair == InitPipe /\ [][NextPipe]_vars /\ PipeFairness

\* _main_loop created the tasks (bot.py:88-100)
Init ==
    /\ ParseIdle
    /\ tool_raises = FALSE
    /\ PipeIdle
    /\ ENABLE_VAD \in BOOLEAN
    /\ pc = [t \in Tasks |-> IF t = DirectorTask THEN "poll"
                             ELSE IF t = BackgroundTask THEN "sleep" ELSE "none"]
    /\ processing_lock = NewLock
    /\ triggered = FALSE
    /\ idle_short \in BOOLEAN
    /\ conversation_segment = 0
    /\ gen_flag = "none"
    /\ conversation_history = 0
    /\ last_event = NoEvent
    /\ BrainIdle
    /\ SplitIdle
    /\ LipIdle

Next ==
    \/ (DirectorPoll /\ UNCHANGED <<parseVars, pipeLocals, brainVars, splitVars, lipVars>>)
    \/ (DirectorAcquired /\ UNCHANGED <<parseVars, pipeLocals, brainVars, splitVars, lipVars>>)
    \/ (DirectorWaitEnd /\ UNCHANGED <<parseVars, pipeLocals, brainVars, splitVars, lipVars>>)
    \/ (DirectorSleepEnd /\ UNCHANGED <<parseVars, pipeLocals, brainVars, splitVars, lipVars>>)
    \/ ((\E t \in Tasks : TurnRejected(t)) /\ UNCHANGED <<parseVars, pipeLocals, brainVars, splitVars, lipVars>>)
    \/ ((\E t \in Tasks : TurnDone(t)) /\ UNCHANGED <<parseVars, pipeLocals, brainVars, splitVars, lipVars>>)
    \/ ((\E t \in Tasks : TurnFollowUp(t)) /\ UNCHANGED <<parseVars, pipeLocals, brainVars, splitVars, lipVars>>)
    \/ ((\E t \in Tasks : FollowUpDone(t)) /\ UNCHANGED <<parseVars, pipeLocals, brainVars, splitVars, lipVars>>)
    \/ ((\E h \in Handlers : HandlerStart(h)) /\ UNCHANGED <<parseVars, pipeLocals, brainVars, splitVars, lipVars>>)
    \/ ((\E h \in Handlers : HandlerAcquired(h)) /\ UNCHANGED <<parseVars, pipeLocals, brainVars, splitVars, lipVars>>)
    \/ ((\E h \in Handlers : HandlerIgnored(h)) /\ UNCHANGED <<parseVars, pipeLocals, brainVars, splitVars, lipVars>>)
    \/ ((\E h \in Handlers : HandlerTurn(h)) /\ UNCHANGED <<parseVars, pipeLocals, brainVars, splitVars, lipVars>>)
    \/ (BackgroundTick /\ UNCHANGED <<parseVars, pipeLocals, brainVars, splitVars, lipVars>>)
    \/ (BackgroundAcquired /\ UNCHANGED <<parseVars, pipeLocals, brainVars, splitVars, lipVars>>)
    \/ (VadInterrupt /\ UNCHANGED <<parseVars, pipeLocals, brainVars, splitVars, lipVars>>)
    \/ (VadSpeech /\ UNCHANGED <<parseVars, pipeLocals, brainVars, splitVars, lipVars>>)
    \/ ((\E h \in Handlers : VadUtterance(h)) /\ UNCHANGED <<parseVars, pipeLocals, brainVars, splitVars, lipVars>>)
    \/ (TimePasses /\ UNCHANGED <<parseVars, pipeLocals, brainVars, splitVars, lipVars>>)

Spec == Init /\ [][Next]_vars

\* VTubeBot.__init__ made the state and the director (bot.py:46-47)
InitBrain ==
    /\ ParseIdle
    /\ tool_raises = FALSE
    /\ PipeIdle
    /\ BotIdle
    /\ SplitIdle
    /\ LipIdle
    /\ BrainIdle

NextBrain ==
    \/ (Update /\ UNCHANGED <<parseVars, pipeVars, botVars, splitVars, lipVars>>)
    \/ (ChangeTopic /\ UNCHANGED <<parseVars, pipeVars, botVars, splitVars, lipVars>>)

SpecBrain == InitBrain /\ [][NextBrain]_vars

\* the states decide_action is given: every scalar at its lowest, at its
\* highest and in between, the mood as update left it
DirectorStates ==
    { update_mood([boredom |-> b, energy |-> e, sass |-> s, focus |-> f,
                   mood |-> "CHILL", consecutive_monologues |-> 0]) :
        b \in {0, 600, 1000}, e \in {200, 700}, s \in {0, 300, 700},
        f \in {100, 500} }

InitDirector ==
    /\ ParseIdle
    /\ tool_raises = FALSE
    /\ PipeIdle
    /\ BotIdle
    /\ SplitIdle
    /\ LipIdle
    /\ \E st \in DirectorStates :
          /\ boredom = st.boredom
          /\ energy = st.energy
          /\ sass = st.sass
          /\ focus = st.focus
          /\ mood = st.mood
          /\ consecutive_monologues = st.consecutive_monologues
    /\ last_op = "update"
    /\ decision = NoDecision
    /\ ncalls = 0
    /\ recent_actions = <<>>
    /\ boke_elapsed \in {0, BokeCooldown}
    /\ idle_time \in IdleTimes
    /\ current_topic = ""
    /\ topics_discussed = <<>>

NextDirector ==
    \/ (LoopUpdate /\ UNCHANGED <<parseVars, pipeVars, botVars, splitVars, lipVars>>)
    \/ (Decide /\ UNCHANGED <<parseVars, pipeVars, botVars, splitVars, lipVars>>)
    \/ (Feedback /\ UNCHANGED <<parseVars, pipeVars, botVars, splitVars, lipVars>>)
    \/ (RecordAction /\ UNCHANGED <<parseVars, pipeVars, botVars, splitVars, lipVars>>)
    \/ (ClockTick /\ UNCHANGED <<parseVars, pipeVars, botVars, splitVars, lipVars>>)

SpecDirector == InitDirector /\ [][NextDirector]_vars


\* the histories change_topic builds before it evicts anything, the first
\* topic discussed being "a": no topic follows itself
TopicHistories ==
    {q \in UNION {[1..n -> Topics] : n \in 0..TopicLimit} :
        /\ q # <<>> => q[1] = "a"
        /\ \A i \in 1..(Len(q) - 1) : q[i] # q[i + 1]}

\* the state is the default one; some topics were discussed, and the current
\* topic is not the one discussed last
InitTopics ==
    /\ ParseIdle
    /\ tool_raises = FALSE
    /\ PipeIdle
    /\ BotIdle
    /\ SplitIdle
    /\ LipIdle
    /\ boredom = DefaultState.boredom
    /\ energy = DefaultState.energy
    /\ sass = DefaultState.sass
    /\ focus = DefaultState.focus
    /\ mood = DefaultState.mood
    /\ consecutive_monologues = DefaultState.consecutive_monologues
    /\ last_op = "new"
    /\ ncalls = 0
    /\ decision = NoDecision
    /\ recent_actions = <<>>
    /\ boke_elapsed = BokeCooldown
    /\ idle_time = 0
    /\ topics_discussed \in TopicHistories
    /\ current_topic \in Topics \cup {""}
    /\ topics_discussed # <<>> =>
          /\ current_topic # ""
          /\ current_topic # topics_discussed[Len(topics_discussed)]

NextTopics ==
    \/ (ChangeTopic /\ UNCHANGED <<parseVars, pipeVars, botVars, splitVars, lipVars>>)

SpecTopics == InitTopics /\ [][NextTopics]_vars
\* a text and the parameters are chosen
InitSplit ==
    /\ ParseIdle
    /\ tool_raises = FALSE
    /\ PipeIdle
    /\ BotIdle
    /\ BrainIdle
    /\ LipIdle
    /\ seg_text \in SegTexts
    /\ \E pr \in SegParams : min_length = pr[1] /\ max_length = pr[2]
    /\ chunks = <<>>
    /\ stream_sentences = <<>>
    /\ seg_pc = "new"

NextSplit ==
    \/ (SplitWhole /\ UNCHANGED <<parseVars, pipeVars, botVars, brainVars, lipVars>>)
    \/ (SplitStream /\ UNCHANGED <<parseVars, pipeVars, botVars, brainVars, lipVars>>)

SpecSplit == InitSplit /\ [][NextSplit]_vars

\* a chunk with audio is about to be played; the avatar client is connected
\* or not (vtube_client.py:21, 36, 42)
InitLip ==
    /\ ParseIdle
    /\ tool_raises = FALSE
    /\ PipeIdle
    /\ BotIdle
    /\ BrainIdle
    /\ SplitIdle
    /\ \E text \in LipTexts : lip_sync_data = generate_lip_sync(text)
    /\ lip_idx = 0
    /\ lip_elapsed = 0
    /\ lip_pc = "start"
    /\ lip_log = <<>>
    /\ connected \in BOOLEAN

NextLip ==
    \/ (LipStart /\ UNCHANGED <<parseVars, pipeLocals, botVars, brainVars, splitVars>>)
    \/ (LipFrame /\ UNCHANGED <<parseVars, pipeLocals, botVars, brainVars, splitVars>>)
    \/ (LipClose /\ UNCHANGED <<parseVars, pipeLocals, botVars, brainVars, splitVars>>)
    \/ (LipBusy /\ UNCHANGED <<parseVars, pipeLocals, botVars, brainVars, splitVars>>)
    \/ (LipCancel /\ UNCHANGED <<parseVars, pipeLocals, botVars, brainVars, splitVars>>)
    \/ (LipInterrupt /\ UNCHANGED <<parseVars, pipeLocals, botVars, brainVars, splitVars>>)
    \/ (WsClose /\ UNCHANGED <<parseVars, pipeLocals, botVars, brainVars, splitVars>>)

SpecLip == InitLip /\ [][NextLip]_vars

----------------------------------------------------------------------------
(* Claims checked under SpecParse *)

GenerationOver == parse_pc \in {"done", "aborted"}

\* the texts of the SpeechSegment events, in order
SpeechTexts(es) ==
    LET sel == SelectSeq(es, LAMBDA e : e.kind = "SpeechSegment")
    IN  [i \in 1..Len(sel) |-> sel[i].text]

Sentinels(q) == Len(SelectSeq(q, LAMBDA x : x.sentinel))

\* C3: every sentence put on the sentence queue was first allowed by
\* check_safety, on every path: the sentence extraction, the closing-tag flush
\* and the end-of-stream flush.
C3_EverySentenceChecked ==
    \A i \in 1..Len(queued) : ~queued[i].sentinel => queued[i].checked

\* C4: a SafetyGate rejection aborts the turn and only the turn: the queue
\* holds no rejected text and nothing after the sentinel of the rejection, the
\* turn makes no second generation, and the task is back where the next turn
\* starts.
C4_RejectionAbortsTurnOnly ==
    /\ parse_pc = "aborted" =>
         /\ \A i \in 1..Len(queued) :
              ~queued[i].sentinel =>
                 /\ check_safety(queued[i].text)
                 /\ \A j \in 1..(i - 1) : ~queued[j].sentinel
         /\ queued[Len(queued)].sentinel
    /\ (parse_pc = "aborted" /\ gen_no = 1) => turn_no \notin rejected
    /\ turn_no \in rejected => parse_pc = "idle" /\ gen_no = 1

\* a turn was rejected after it had queued a sentence, and the next turn has
\* run its generation to the end
C4_Witness ==
    /\ 1 \in rejected
    /\ turn_no = 2
    /\ parse_pc = "done"
    /\ Len(events) > 0

\* C7: every turn's sentence queue receives exactly one sentinel, however the
\* generation ends.
C7_OneSentinelPerQueue ==
    GenerationOver => Sentinels(queued) = 1

\* C8: the events of a stream do not depend on how it is cut into fragments:
\* they are those of the stream delivered as one fragment.
C8_FragmentationInvariance ==
    GenerationOver =>
        events = ParseWhole(complete_response \o stream_rest, <<>>, tool_raises).events

\* C9: <speak>Hi there. How are you?</speak> delivered as one fragment gives
\* two SpeechSegments, "Hi there." then "How are you?" (as filter_for_tts
\* renders them).
C9_WholeFragmentTwoSegments ==
    (parse_pc = "done" /\ frags = 1 /\ complete_response = HiThere) =>
        SpeechTexts(events) = << filter_for_tts(Chars("Hi there.")),
                                 filter_for_tts(Chars("How are you?")) >>

----------------------------------------------------------------------------
(* Claims checked under Spec                                                *)

\* the tasks inside the with block of processing_lock
Holding(t) == pc[t] \in {"wait", "transcribe", "gen1", "gen2"}

\* C1: at most one task is in process_and_respond at any time, and a task in
\* process_and_respond holds the lock: the lock is locked and no other task is
\* inside its with block.
C1_SingleTurnInFlight ==
    /\ Cardinality({t \in Tasks : InTurn(t)}) <= 1
    /\ \A t \in Tasks : InTurn(t) =>
          /\ processing_lock.locked
          /\ \A u \in Tasks \ {t} : ~Holding(u)

\* a handle_audio task is in its turn while conversation_loop and another
\* handle_audio task wait for the lock
C1_Witness ==
    \E h \in Handlers :
        /\ InTurn(h)
        /\ pc[DirectorTask] = "acquire"
        /\ \E g \in Handlers \ {h} : pc[g] = "acquire"

\* C2: whenever the first generation of a turn begins, the interruption event
\* is unset.
C2_FlagClearedAtTurnStart == \A t \in Tasks : pc[t] = "gen1" => gen_flag = "unset"

----------------------------------------------------------------------------
(* Claims checked under SpecPipe                                            *)

\* chunk a comes before chunk b in the order of extraction and synthesis
ChunkBefore(a, b) == a.s < b.s \/ (a.s = b.s /\ a.k < b.k)

InOrder(q) == \A i, j \in 1..Len(q) : i < j => ChunkBefore(q[i], q[j])

\* C5: the chunks are synthesized and played in the order of their sentences:
\* no chunk of a later sentence is put or played before a chunk of an earlier
\* one, and the chunks of one sentence keep their order.
C5_OrderPreserved == InOrder(attempted) /\ InOrder(played)

\* two chunks of the first sentence and one of the second were played
C5_Witness ==
    /\ Len(played) >= 3
    /\ played[1].s = 1 /\ played[2].s = 1
    /\ played[Len(played)].s = 2

\* the chunk tts_worker is blocked on
Pending == IF tts_pc = "put" THEN <<tts_cur>> ELSE <<>>

\* C6: audio_stream_queue never holds more than 5 entries, and no chunk that
\* tts_worker went on to put is lost: it was put on the queue or the put is
\* still waiting for room.
C6_BoundedAndNoChunkLost ==
    /\ Len(audio_stream_queue) <= AudioQueueSize
    /\ attempted = SelectSeq(audio_puts, LAMBDA c : c # NoChunk) \o Pending

----------------------------------------------------------------------------
(* Claims about the tool results (SpecParse)                                *)

\* C11: when the first generation of a turn begins, the results the earlier
\* turns recorded are injected into its request.
C11_ToolResultsInjectedNextTurn ==
    (parse_pc = "streaming" /\ frags = 0 /\ gen_no = 1) =>
        InjectedResults(tool_results) = tool_results

ToolCalls(es) == SelectSeq(es, LAMBDA e : e.kind = "ToolCall")

\* the entry _handle_tag leaves for a call of the tool named name
EntryKind(name) ==
    IF Joined(name) \notin RegisteredTools THEN "not found"
    ELSE IF tool_raises THEN "error" ELSE "result"

\* C12: every step of the parser appends exactly one entry to tool_results for
\* each tool call with a name it dispatches (the result, "not found" or the
\* error, as the registry and the tool decide) and leaves the earlier entries
\* alone; a stream with tool calls and no rejected speech is never aborted, and
\* what follows a tool call in the stream is parsed.
C12_ToolDispatchNeverFailsTurn ==
    /\ [][parse_pc = "streaming" =>
            LET old == Len(tool_results)
                calls == SubSeq(ToolCalls(events'), Len(ToolCalls(events)) + 1,
                                Len(ToolCalls(events')))
            IN  /\ Len(tool_results') = old + Len(calls)
                /\ SubSeq(tool_results', 1, old) = tool_results
                /\ \A i \in 1..Len(calls) :
                      /\ tool_results'[old + i].tool = calls[i].name
                      /\ tool_results'[old + i].kind = EntryKind(calls[i].name)]_vars
    /\ [](complete_response \o stream_rest \in {ToolTag, UnknownTool, ToolThenWait}
            => parse_pc # "aborted")
    /\ []((parse_pc = "done" /\ complete_response = ToolThenWait) =>
            events = <<ToolCall(Chars("web_search"), Chars("a")), Wait(3)>>)

\* the tool raised, its error was recorded, and the wait tag after it was parsed
C12_Witness ==
    /\ parse_pc = "done"
    /\ complete_response = ToolThenWait
    /\ tool_raises
    /\ tool_results # <<>>
    /\ tool_results[Len(tool_results)].kind = "error"
    /\ events[Len(events)] = Wait(3)

----------------------------------------------------------------------------
(* Claims about AIState and Director *)

C14_MoodByFixedPriority ==
    last_op = "update" =>
        /\ boredom > 700 => mood = "BORED"
        /\ (boredom <= 700 /\ sass > 600) => mood = "SASSY"
        /\ (boredom <= 700 /\ sass <= 600 /\ energy > 700) => mood = "ENERGETIC"
        /\ (boredom <= 700 /\ sass <= 600 /\ energy <= 700 /\ focus > 600)
              => mood = "CURIOUS"
        /\ (boredom <= 700 /\ sass <= 600 /\ energy <= 700 /\ focus <= 600)
              => mood = "CHILL"

\* an update left both the sass and the energy high: the sass decides
C14_Witness ==
    /\ last_op = "update"
    /\ ncalls >= 1
    /\ sass > 600
    /\ energy > 700
    /\ mood = "SASSY"

\* C15: decide_action with has_comments true and sass 0.0 returns a REACT plan
\* for every outcome of the random roll and every other state and context.
C15_ReactWhenNoSass ==
    (last_op = "decide" /\ decision.made /\ decision.in.has_comments /\ sass = 0)
        => decision.mode = "react"

\* the rules of decide_action that applied to the inputs of the call just made
ReactRule == ReactApplies(AIStateNow, decision.in.has_comments, decision.in.roll_react)
BokeRule == should_boke(AIStateNow, decision.in.boke_recent, decision.in.roll_boke)
TeaseRule == TeaseApplies(AIStateNow, decision.in.roll_tease)
TopicRule == should_change_topic(AIStateNow, decision.in.topic_old, decision.in.roll_topic)

\* C16: decide_action returns the plan of the first rule that applies, in the
\* order react, boke, tease, wait, topic change, monologue; a WAIT plan has
\* priority -1 and an empty directive and is returned only when idle_time < 5
\* and none of react, boke and tease applied; with idle_time >= 5 the plan is
\* never WAIT.
C16_FirstApplicableRule ==
    (last_op = "decide" /\ decision.made) =>
        LET plan == [mode |-> decision.mode, priority |-> decision.priority,
                     directive |-> decision.directive]
            idle == decision.in.idle_time
        IN  /\ ReactRule => plan = ActionPlan("react", 10, TRUE)
            /\ (~ReactRule /\ BokeRule) => plan = ActionPlan("boke", 5, TRUE)
            /\ (~ReactRule /\ ~BokeRule /\ TeaseRule)
                  => plan = ActionPlan("tease", 3, TRUE)
            /\ (~ReactRule /\ ~BokeRule /\ ~TeaseRule /\ idle < 5)
                  => plan = ActionPlan("wait", -1, FALSE)
            /\ (~ReactRule /\ ~BokeRule /\ ~TeaseRule /\ idle >= 5 /\ TopicRule)
                  => plan = ActionPlan("monologue", 4, TRUE)
            /\ (~ReactRule /\ ~BokeRule /\ ~TeaseRule /\ idle >= 5 /\ ~TopicRule)
                  => plan = ActionPlan("monologue", 1, TRUE)
            /\ plan.mode = "wait"
                  => (idle < 5 /\ ~ReactRule /\ ~BokeRule /\ ~TeaseRule)
            /\ idle >= 5 => plan.mode # "wait"

\* a WAIT plan although a comment is waiting: the react roll failed, the last
\* boke is recent and the idle time is short
C16_Witness ==
    /\ last_op = "decide"
    /\ decision.made
    /\ decision.in.has_comments
    /\ decision.in.idle_time < 5
    /\ decision.mode = "wait"
    /\ decision.priority = -1

----------------------------------------------------------------------------
(* Claims about the interruption and the end of a turn *)

\* C17: once the interruption is set during a turn, stream_audio starts to play
\* no further chunk, leaves the audio queue empty when it ends, and ends.
C17_PlaybackStopsOnInterruption ==
    /\ [][interruption_event => played' = played]_vars
    /\ [][(interruption_event /\ ~TaskOver(play_pc) /\ play_pc' = "done")
            => audio_stream_queue' = <<>>]_vars
    /\ (interruption_event ~> TaskOver(play_pc))

\* the interruption came after a chunk was played, stream_audio ended, and a
\* chunk that was put was thrown away unplayed
C17_Witness ==
    /\ interruption_event
    /\ play_pc = "done"
    /\ played # <<>>
    /\ audio_stream_queue = <<>>
    /\ \E i \in 1..Len(audio_puts) :
          /\ audio_puts[i] # NoChunk
          /\ \A j \in 1..Len(played) : played[j] # audio_puts[i]

\* C18: once the interruption is set (in a turn that has played a chunk, so that
\* it was set during the turn), tts_worker takes no further sentence from
\* sentence_queue and requests no synthesis for it.
C18_NoSentenceAfterInterruption ==
    [][(interruption_event /\ played # <<>>)
        => ~(tts_pc = "get" /\ tts_pc' = "synth")]_vars

\* C19: every started generation returns to its turn, however generation,
\* synthesis, playback and interruption interleave and even if generate_speech
\* never comes back.
C19_TurnCompletes == <>(gen_pc = "returned")

\* the turn went on although tts_worker had to be cancelled
C19_Witness ==
    /\ gen_pc = "returned"
    /\ tts_pc = "cancelled"

\* C20: a first response with a thought, no speak text and no tool call is
\* followed by one corrective generation; after the follow-up, whether it
\* yielded speech, yielded none again or failed, the turn ends and no further
\* generation is asked for.
C20_OneCorrectiveFollowUp ==
    /\ [][(/\ parse_pc = "done"
            /\ gen_no = 1
            /\ Contains(complete_response, Chars("<thought>"))
            /\ extract_speak_text(complete_response) = <<>>
            /\ ~Contains(complete_response, Chars("<tool")))
           => (gen_no' = 2 /\ parse_pc' = "streaming" /\ turn_no' = turn_no)]_vars
    /\ [][(gen_no = 2 /\ parse_pc \in {"done", "aborted"})
           => (parse_pc' = "idle" /\ gen_no' = 2 /\ turn_no' = turn_no
               /\ rejected' = rejected)]_vars
    /\ [](gen_no <= 2)

\* the follow-up again yielded a thought and no speech
C20_Witness ==
    /\ gen_no = 2
    /\ parse_pc = "done"
    /\ Contains(complete_response, Chars("<thought>"))
    /\ extract_speak_text(complete_response) = <<>>
    /\ ~Contains(complete_response, Chars("<tool"))

----------------------------------------------------------------------------
(* Claims about the splitters *)

\* C21: split_text_for_streaming returns no chunk shorter than min_length or
\* longer than max_length, except the last one.
C21_ChunksWithinLengths ==
    seg_pc # "new" =>
        \A i \in 1..(Len(chunks) - 1) :
            min_length <= Len(chunks[i]) /\ Len(chunks[i]) <= max_length

\* C22: split_text_for_streaming returns no chunk that is empty or only
\* whitespace.
C22_NoBlankChunk ==
    seg_pc # "new" => \A i \in 1..Len(chunks) : Strip(chunks[i]) # <<>>

\* C29: for the same speak text and the length parameters of the parser's
\* splitter, split_text_for_streaming and the parser give the same sequence of
\* chunks.
C29_SplittersAgree ==
    (seg_pc = "both" /\ min_length = MinSpeak /\ max_length = LongBuffer)
        => chunks = stream_sentences

----------------------------------------------------------------------------
(* Claims about the persona check, the tags and the teardown *)

C28_TimeoutCancelsNoTask ==
    tts_pc # "cancelled" /\ play_pc # "cancelled"

\* C30: a failure of the synthesis of one sentence is contained: tts_worker goes
\* back to take the next sentence with both queues untouched, a turn that ends
\* without a timeout has had the sentinel put on the audio queue with both
\* tasks ended, and after a failure the turn does end.
C30_SynthesisFailureContained ==
    /\ [][failed' # failed
            => /\ tts_pc' = "get"
               /\ sentence_queue' = sentence_queue
               /\ audio_stream_queue' = audio_stream_queue
               /\ play_pc' = play_pc]_vars
    /\ []((gen_pc = "returned" /\ failed # {}
            /\ tts_pc # "cancelled" /\ play_pc # "cancelled")
           => /\ tts_pc = "done" /\ play_pc = "done"
              /\ audio_puts # <<>>
              /\ audio_puts[Len(audio_puts)] = NoChunk)
    /\ ((failed # {}) ~> (gen_pc = "returned"))

\* the first sentence failed, a chunk of the second one was played, and the
\* turn ended with both tasks ended by the sentinel
C30_Witness ==
    /\ 1 \in failed
    /\ \E i \in 1..Len(played) : played[i].s = 2
    /\ gen_pc = "returned"
    /\ tts_pc = "done"
    /\ play_pc = "done"

\* C26: once the parser has consumed a closing tag whose name differs from the
\* open tag's, no tag is open: in the stream "<speak>ab</thought>cd!ef</speak>",
\* from the delivery of "</thought>" until that of "</speak>", current_tag is
\* "none" and nothing of "cd!ef" is queued as speech.
C26_MismatchedCloserClosesTag ==
    (/\ parse_pc = "streaming"
     /\ complete_response \o stream_rest = Mismatched
     /\ Contains(complete_response, Chars("</thought>"))
     /\ ~Contains(complete_response, Chars("</speak>")))
        => /\ current_tag = "none"
           /\ queued = <<>>

\* C27: a tool tag without a name attribute leaves a "not found" entry in
\* tool_results: after the first generation's stream "<tool/><wait/>" the
\* accumulator holds such an entry.
C27_NamelessToolNotFound ==
    (/\ parse_pc = "done"
     /\ turn_no = 1
     /\ gen_no = 1
     /\ complete_response = NoAttrs)
        => \E i \in 1..Len(tool_results) : tool_results[i].kind = "not found"

----------------------------------------------------------------------------
(* Claims checked under SpecDirector: the frame of the Director *)

\* C25: a call of Director.decide_action (its should_boke and
\* should_change_topic checks and its plan builders included) and a call of
\* Director.record_action leave every field of the AIState as it was: the
\* state is written only by its own update and change_topic.
C25_DirectorLeavesStateUnchanged ==
    [][last_op' \in {"decide", "record"} =>
          /\ boredom' = boredom
          /\ energy' = energy
          /\ sass' = sass
          /\ focus' = focus
          /\ mood' = mood
          /\ consecutive_monologues' = consecutive_monologues]_vars

\* a monologue was decided on and recorded
C25_Witness ==
    /\ last_op = "record"
    /\ decision.made
    /\ decision.mode = "monologue"
    /\ recent_actions # <<>>
    /\ recent_actions[Len(recent_actions)] = "monologue"

----------------------------------------------------------------------------
(* Claims checked under Spec: the lock between the director and the        *)
(* reactive turns                                                           *)

\* conversation_loop is past decide_action: it carries out a plan
Planning == {"wait", "gen1", "gen2"}

\* handle_audio task h is inside its with block
Reactive(h) == pc[h] \in {"transcribe", "gen1", "gen2"}

\* C24: while a handle_audio task holds processing_lock, conversation_loop
\* starts no plan (no step takes it to decide_action and on to a wait or a
\* generation); and when a task leaves the waiters of the lock, it is the
\* first of them, it is the only task that moves, the others keep waiting in
\* their order, and at most one task is inside the with block afterwards.
C24_LockSerializesContenders ==
    /\ [][(\E h \in Handlers : Reactive(h)) =>
             (pc'[DirectorTask] \in Planning => pc[DirectorTask] \in Planning)]_vars
    /\ [][Len(processing_lock'.waiters) < Len(processing_lock.waiters) =>
             LET first == Head(processing_lock.waiters)
             IN  /\ processing_lock.woken
                 /\ processing_lock'.waiters = Tail(processing_lock.waiters)
                 /\ pc[first] = "acquire"
                 /\ pc'[first] # "acquire"
                 /\ \A u \in Tasks \ {first} : pc'[u] = pc[u]
                 /\ Cardinality({t \in Tasks : pc'[t] \in Planning \cup {"transcribe"}})
                        <= 1]_vars
    /\ [](\A h \in Handlers : Reactive(h) => pc[DirectorTask] \notin Planning)

\* a handle_audio task went through its with block and released the lock while
\* another handle_audio task and conversation_loop were waiting for it
C24_Witness ==
    /\ processing_lock.woken
    /\ ~processing_lock.locked
    /\ Len(processing_lock.waiters) >= 2
    /\ pc[DirectorTask] = "acquire"
    /\ \E h \in Handlers : pc[h] = "done"
    /\ \E g \in Handlers : pc[g] = "acquire"

\* C35: while conversation_loop sleeps on a WAIT plan it does not hold
\* processing_lock: the lock is free, no handle_audio task waits for it, and
\* speech heard by the VAD is not taken for an interruption.
C35_WaitHoldsNoLock ==
    pc[DirectorTask] = "wait" =>
        /\ ~processing_lock.locked
        /\ \A h \in Handlers : pc[h] # "acquire"

\* C37: in every state reached by update and change_topic calls the mood is
\* the one the fixed priority gives for the scalars: BORED, SASSY, ENERGETIC,
\* CURIOUS, CHILL.
C37_MoodFollowsScalars ==
    mood = (IF boredom > 700 THEN "BORED"
            ELSE IF sass > 600 THEN "SASSY"
            ELSE IF energy > 700 THEN "ENERGETIC"
            ELSE IF focus > 600 THEN "CURIOUS"
            ELSE "CHILL")

\* C36: when the stream ends inside a speak tag, every character of the speak
\* text received was put on sentence_queue in some SpeechSegment: of the
\* stream "<speak>Hi! Okay then", both "Hi!" and "Okay then" were spoken (as
\* filter_for_tts renders them).
C36_FlushSpeaksEverything ==
    (/\ parse_pc = "done"
     /\ turn_no = 1
     /\ gen_no = 1
     /\ complete_response = Unclosed)
        => /\ \E i \in 1..Len(events) :
                 /\ events[i].kind = "SpeechSegment"
                 /\ Contains(events[i].text, filter_for_tts(Chars("Hi!")))
           /\ \E i \in 1..Len(events) :
                 /\ events[i].kind = "SpeechSegment"
                 /\ Contains(events[i].text, filter_for_tts(Chars("Okay then")))

----------------------------------------------------------------------------
(* Claims checked under SpecDirector: the loop of decisions and feedback *)

\* C31: decide_action returns no BOKE plan while less than 30 seconds have
\* gone by since the last boke event was applied to the state, whatever the
\* boredom, the focus and the random rolls are.
C31_NoBokeWithinCooldown ==
    /\ [][(last_op = "update" /\ last_op' = "decide" /\ boke_elapsed < BokeCooldown)
             => decision'.mode # "boke"]_vars
    /\ []((last_op = "decide" /\ decision.mode = "boke")
             => boke_elapsed >= BokeCooldown)

\* a boke was carried out and reported, and the next decision, taken less than
\* 30 s later with a roll that the boke chance admits, is not a boke
C31_Witness ==
    /\ last_op = "decide"
    /\ decision.made
    /\ \E i \in 1..Len(recent_actions) : recent_actions[i] = "boke"
    /\ boke_elapsed < BokeCooldown
    /\ ~decision.in.has_comments
    /\ decision.in.boke_recent
    /\ decision.in.roll_boke * Unit < boredom * 400 + (Unit - focus) * 300
    /\ decision.mode \in {"tease", "wait", "monologue"}

\* C38: consecutive_monologues counts an unbroken run of monologues: once
\* conversation_loop has carried out and reported a react, boke or tease plan
\* the counter is 0.
C38_NonMonologueResetsRun ==
    (last_op = "feedback" /\ decision.mode \in {"react", "boke", "tease"})
        => consecutive_monologues = 0

----------------------------------------------------------------------------
(* Claims checked under SpecTopics *)

\* C34: topics_discussed never holds more than 10 entries; change_topic
\* appends the previous topic only when it is not empty and differs from the
\* new one, evicts the oldest entry when the list would exceed 10, and
\* otherwise leaves the list as it was.
C34_TopicsBounded ==
    /\ [](Len(topics_discussed) <= TopicLimit)
    /\ [][last_op' = "change_topic" =>
             IF current_topic # "" /\ current_topic # current_topic'
             THEN IF Len(topics_discussed) < TopicLimit
                  THEN topics_discussed' = Append(topics_discussed, current_topic)
                  ELSE topics_discussed' =
                          Append(Tail(topics_discussed), current_topic)
             ELSE topics_discussed' = topics_discussed]_vars

\* ten topics are kept and the first one ever discussed, "a", is no longer
\* among them: it was evicted
C34_Witness ==
    /\ last_op = "change_topic"
    /\ Len(topics_discussed) = TopicLimit
    /\ topics_discussed[1] = "b"
    /\ topics_discussed[TopicLimit] # current_topic

----------------------------------------------------------------------------
(* Claims checked under Spec: what a turn leaves behind *)

\* C33: a handle_audio task whose transcription is empty or shorter than 3
\* characters ends without a turn: the step from the transcription to the end
\* of the task starts no generation, leaves conversation_history,
\* conversation_segment and the events reported to ai_state as they were, and
\* releases the lock.
C33_ShortTranscriptionDropped ==
    [][\A h \in Handlers :
          (pc[h] = "transcribe" /\ pc'[h] = "done") =>
              /\ conversation_history' = conversation_history
              /\ conversation_segment' = conversation_segment
              /\ last_event' = last_event
              /\ gen_flag' = gen_flag
              /\ \A t \in Tasks : ~InTurn(t)'
              /\ processing_lock.locked
              /\ ~processing_lock'.locked]_vars

\* two handle_audio tasks are over; one had its turn, which left its text in
\* the history and the segment, and the other was dropped and left nothing
C33_Witness ==
    \E h, g \in Handlers :
        /\ h # g
        /\ pc[h] = "done"
        /\ pc[g] = "done"
        /\ last_event = Reported(g, "got_reaction")
        /\ conversation_history = 1
        /\ conversation_segment = 1
        /\ ~processing_lock.locked

\* C39: whenever process_and_respond has returned, conversation_history holds
\* at most 10 entries.
C39_HistoryAtMostTen ==
    (\A t \in Tasks : ~InTurn(t)) => conversation_history <= HistoryLimit

\* C32: once play_audio_with_lip_sync has given a lip sync frame to the avatar
\* client and has left the loop over the frames (at its end, by an
\* interruption or by the cancellation of the task), its last call to the
\* avatar client is the one that sets the mouth value to 0.
C32_MouthClosedAfterFrames ==
    (/\ lip_pc \in {"busy", "done", "cancelled"}
     /\ \E i \in 1..Len(lip_log) : lip_log[i].frame > 0)
        => /\ lip_log # <<>>
           /\ lip_log[Len(lip_log)].frame = 0
           /\ lip_log[Len(lip_log)].given = JawOpen(0)

\* C40: every message of a lip sync frame that reaches the avatar carries
\* the mouth_open value of that frame as its MouthOpen value.
C40_FrameValueTransmitted ==
    \A i \in 1..Len(lip_log) :
        (lip_log[i].frame > 0 /\ lip_log[i].sent)
            => lip_log[i].MouthOpen = lip_sync_data[lip_log[i].frame].mouth_open

====
